---- MODULE Spec2Model ----
(***************************************************************************)
(* Model of the unlimited_power service (src/src/bin/service/main.rs):     *)
(* the shutdown supervisor (main_loop), the latest-snapshot watch channel  *)
(* written by the status poller, the WAKEUP resume event raised by the     *)
(* service control handler, and the SHUTDOWN stop notification.            *)
(*                                                                         *)
(* The service runs on a current-thread runtime: the poller and the        *)
(* supervisor are two branches of one select! in run_service, so the       *)
(* poller can only publish while the supervisor is parked at an await.     *)
(* The control handler and the wait callback run on other threads and may  *)
(* interleave with every supervisor step.                                  *)
(*                                                                         *)
(* A second specification, SessionSpec, models one VoltronicHidUps session *)
(* (src/ups/src/voltronic_hid_ups.rs) used by several concurrent callers   *)
(* of transact_command: the tokio Mutex around the device, the output      *)
(* report built by HidDevice::create_output_report, and the packet reads   *)
(* of the response.                                                        *)
(***************************************************************************)
EXTENDS Integers, Sequences, FiniteSets, TLC

(* ------------------------------ bounds -------------------------------- *)

\* number of snapshots the poller publishes in a run
MaxPublish == 2

\* number of resume power events the control handler receives in a run
MaxWakeups == 1

\* largest configured grace period, in timer ticks
MaxTimeout == 1

\* number of concurrent callers of transact_command on one session
NumCallers == 2

\* longest command, in bytes, a caller passes to transact_command
MaxCmdLen == 2

\* largest OutputReportByteLength of the device
MaxReportSize == 3

\* packets without a terminator a receive can read before its total
\* timeout of RECEIVE_TOTAL_TIMEOUT_MS expires
MaxPackets == 1

\* largest number of fields in a status text
MaxFields == 9

\* number of Signaled futures created on one Event
MaxFutures == 2

\* greatest number of packets without a terminator at the head of a
\* scripted response
MaxStream == 10

(* ------------------------- UpsStatusFlags bits ------------------------ *)

SELF_TEST_IN_PROGRESS == 4

UPS_LINE_INTERACTIVE == 8

UPS_FAULT == 16

BATTERY_LOW == 64

UTILITY_FAIL == 128

\* flags.contains(bit) for a single-bit mask
Contains(flags, bit) == (flags \div bit) % 2 = 1

\* the flag bytes the scripted UPS reports: every work mode with BATTERY_LOW
\* clear and set (0x08 0x48 Line, 0x88 0xC8 Battery, 0x0C 0x4C BatteryTest,
\* 0x18 0x58 Fault), UPS_FAULT together with UTILITY_FAIL (0x98), and 0x00
FlagBytes == {0, 8, 72, 136, 200, 12, 76, 24, 88, 152}

\* the channel's initial value, watch::channel(None)
None == << >>

\* a published snapshot, Some(status); only the flags matter to main_loop
Some(flags) == << flags >>

\* the argument of report_service_status: state and Win32 exit code
Status(state, code) == [dwCurrentState |-> state, dwWin32ExitCode |-> code]

\* version of a freshly created watch channel, and of the receiver rx that
\* main_loop owns and only ever clones
InitialVersion == 0

(* ------------------------------ work mode ----------------------------- *)

\* work_mode that looks at UTILITY_FAIL before UPS_FAULT
work_mode_BatteryFirst(flags) ==
    IF Contains(flags, UTILITY_FAIL) THEN "Battery"
    ELSE IF Contains(flags, UPS_FAULT) THEN "Fault"
    ELSE IF Contains(flags, SELF_TEST_IN_PROGRESS) THEN "BatteryTest"
    ELSE "Line"

work_mode(flags) ==
    IF Contains(flags, UPS_FAULT) THEN "Fault"
    ELSE IF Contains(flags, UTILITY_FAIL) THEN "Battery"
    ELSE IF Contains(flags, SELF_TEST_IN_PROGRESS) THEN "BatteryTest"
    ELSE "Line"

\* wait_for_power_loss without its UpsWorkMode::Fault arm
IsPowerLoss_NoFault(flags) ==
    work_mode(flags) \in {"Battery", "BatteryTest"}

\* wait_for_power_loss whose catch-all arm returns true
IsPowerLoss_Any(flags) ==
    work_mode(flags) \in {"Battery", "BatteryTest", "Fault", "Line"}

\* predicate of wait_for_power_loss
IsPowerLoss(flags) ==
    work_mode(flags) \in {"Battery", "BatteryTest", "Fault"}

\* wait_for_power_recovery comparing the flag byte instead of the work mode
IsPowerRecovery_ExactByte(flags) ==
    flags = UPS_LINE_INTERACTIVE

\* predicate of wait_for_power_recovery
IsPowerRecovery(flags) ==
    work_mode(flags) = "Line"

\* wait_for_low_battery testing the wrong bit
IsLowBattery_WrongBit(flags) ==
    Contains(flags, UTILITY_FAIL)

\* predicate of wait_for_low_battery
IsLowBattery(flags) ==
    Contains(flags, BATTERY_LOW)

(* ------------------------------- state -------------------------------- *)

VARIABLES
    hibernate,          \* config.hibernate
    shutdown_timeout_s, \* config.shutdown_timeout_s, in ticks
    configRead,         \* result of RuntimeConfig::read(): "pending", "ok", "err"
    chanValue,          \* value held by the watch channel
    chanVersion,        \* version of the watch channel
    pc,                 \* position of main_loop
    sched,              \* "first": running, not yet parked at the current
                        \* await; "idle": parked; "woken": parked and woken
    lossVer,            \* version seen by the wait_for_power_loss receiver
    lowVer,             \* version seen by the wait_for_low_battery receiver
    recVer,             \* version seen by the wait_for_power_recovery receiver
    timer,              \* ticks left of sleep(shutdown_timeout)
    wakeup,             \* WAKEUP is signaled
    registered,         \* a Signaled future has a wait registered on WAKEUP
    sigFlag,            \* SharedState.signaled of that future
    waker,              \* SharedState.waker is Some
    stopRequested,      \* SHUTDOWN holds a notification
    error,              \* what made main_loop return Err
    notifyCount,        \* calls of send_shutdown_message
    cycles,             \* power losses detected by wait_for_power_loss
    cycleResets,        \* successful WAKEUP.reset() in the current cycle
    cycleShutdowns,     \* calls of initiate_shutdown in the current cycle
    cycleRequests,      \* power-control requests issued in the current cycle
    enteredS2,          \* the current cycle got past initiate_shutdown
    graceBranch,        \* select! branch that ended the grace period
    resumeBranch,       \* select! branch that ended the wait for resume
    setSinceReset,      \* WAKEUP.set() succeeded after the last reset
    wakeSets,           \* resume power events handled so far
    allLine,            \* every snapshot published so far is in Line mode
    staleCleared,       \* the last WAKEUP.reset() cleared a signaled event
    lastSup,            \* last statement main_loop executed
    pollerPc,           \* position of ups_query_task
    svcStatus,          \* last status handed to report_service_status
    apiCalls,           \* Win32 calls of the last initiate_shutdown, in order
    openHandles,        \* HidDevice values alive in ups_query_task
    sessFailed,         \* the poller's session was lost to a failed status()
                        \* and the poller has not left the backoff yet
    output_report_size, \* HidDevice.output_report_size of the session
    callerPc,           \* position of each caller in transact_command
    lastCmd,            \* the command of the last send_command
    lockOwner,          \* caller holding the device Mutex, 0 when it is free
    lockQueue,          \* callers waiting in device.lock().await, in order
    packets,            \* packets the receive in progress has read
    lastOp,             \* the last operation issued on the device
    opTick,             \* flips at every operation issued on the device
    sendsOpen,          \* sends since the last complete receive, up to 2
    lastWrite,          \* the last output report handed to WriteAsync
    lastResult,         \* how the last transact_command ended
    input,              \* the text a UPS sends as its status
    parser,             \* the parser the text was given to
    parsed,             \* what the parser returned
    mode,               \* work_mode() of the parsed snapshot
    event,              \* an Event: its kind and the state of its handle
    futures,            \* the Signaled futures created on the event
    stScript,           \* what the UPS does in a status exchange: how long
                        \* each write takes and the input reports it sends
                        \* in answer to each command
    stPc,               \* position of VoltronicHidUps::status
    stCmd,              \* the command of the transact_command in progress
    stSent,             \* the commands sent so far, in order
    stPending,          \* input reports of the answer not yet read
    stBuffer,           \* response of read_all_response_packets
    stElapsed,          \* ms since the operation in progress started
    stLast,             \* how the transact_command of each command ended
    stResult            \* what status() returned

svcVars ==
    << hibernate, shutdown_timeout_s, configRead, chanValue, chanVersion, pc, sched,
       lossVer, lowVer, recVer, timer, wakeup, registered, sigFlag, waker,
       stopRequested, error, notifyCount, cycles, cycleResets,
       cycleShutdowns, cycleRequests, enteredS2, graceBranch, resumeBranch,
       setSinceReset, wakeSets, allLine, staleCleared, lastSup, pollerPc,
       svcStatus, apiCalls, openHandles, sessFailed >>

sessVars ==
    << output_report_size, callerPc, lastCmd, lockOwner, lockQueue,
       packets, lastOp, opTick, sendsOpen, lastWrite, lastResult >>

parseVars == << input, parser, parsed, mode >>

eventVars == << event, futures >>

exchVars ==
    << stScript, stPc, stCmd, stSent, stPending, stBuffer, stElapsed, stLast,
       stResult >>

auxVars == << parseVars, eventVars, exchVars >>

vars == << svcVars, sessVars, auxVars >>

cfgVars == << hibernate, shutdown_timeout_s, configRead >>

chanVars ==
    << chanValue, chanVersion, allLine, pollerPc, openHandles, sessFailed >>

rxVars == << lossVer, lowVer, recVer >>

sigVars == << registered, sigFlag, waker >>

cycleVars ==
    << cycleResets, cycleShutdowns, cycleRequests, enteredS2, apiCalls >>

\* the awaits of main_loop
WaitStates == {"S0", "S1", "S2"}

\* main_loop has ended: it returned Err ("failed"), or its future was
\* dropped ("stopped") because another branch of run_service's select!
\* completed or the process aborted
Ended == {"failed", "stopped"}

\* report_service_status, lines 477-481: the service accepts stop and power
\* event controls in every reported state but SERVICE_START_PENDING; the
\* control manager sends none to a service that has stopped
ControlsAccepted == pc \notin Ended \cup {"start"}

\* the callers of transact_command
Callers == 1..NumCallers

\* service_main calls run_service, lines 164-170: SERVICE_START_PENDING has
\* been reported, the configuration is not read yet, no task exists
ServiceInit ==
    /\ hibernate \in BOOLEAN
    /\ shutdown_timeout_s \in 1..MaxTimeout
    /\ configRead = "pending"
    /\ chanValue = None
    /\ chanVersion = InitialVersion
    /\ pc = "start"
    /\ sched = "first"
    /\ lossVer = InitialVersion
    /\ lowVer = InitialVersion
    /\ recVer = InitialVersion
    /\ timer = 0
    /\ wakeup = FALSE
    /\ registered = FALSE
    /\ sigFlag = FALSE
    /\ waker = FALSE
    /\ stopRequested = FALSE
    /\ error = "none"
    /\ notifyCount = 0
    /\ cycles = 0
    /\ cycleResets = 0
    /\ cycleShutdowns = 0
    /\ cycleRequests = << >>
    /\ enteredS2 = FALSE
    /\ graceBranch = "none"
    /\ resumeBranch = "none"
    /\ setSinceReset = FALSE
    /\ wakeSets = 0
    /\ allLine = TRUE
    /\ staleCleared = FALSE
    /\ lastSup = "none"
    /\ pollerPc = "unstarted"
    /\ svcStatus = Status("SERVICE_START_PENDING", "ERROR_SUCCESS")
    /\ apiCalls = << >>
    /\ openHandles = 0
    /\ sessFailed = FALSE

\* VoltronicHidUps::new on a device whose output report has one of the
\* given sizes: the Mutex is free and nothing was sent or read.
\* create_output_report asserts that the size is at least 1.
SessionNew(sizes) ==
    /\ output_report_size \in sizes
    /\ callerPc = [c \in Callers |-> "idle"]
    /\ lastCmd = << >>
    /\ lockOwner = 0
    /\ lockQueue = << >>
    /\ packets = 0
    /\ lastOp = [kind |-> "none", by |-> 0]
    /\ opTick = FALSE
    /\ sendsOpen = 0
    /\ lastWrite = << >>
    /\ lastResult = "none"

\* no status text has been handed to a parser
ParseNew(texts) ==
    /\ input \in texts
    /\ parser = "none"
    /\ parsed = [kind |-> "none", error |-> "", status |-> << >>]
    /\ mode = "none"

\* Event::new(manual_reset, signaled), and no Signaled created on it yet.
\* Of a future: state is "none" before Signaled::new, "live" while the value
\* exists, "failed" when Signaled::new returned an error, "dropped" after
\* its Drop; wait is the thread-pool wait ("none", "armed", "fired" once the
\* wait is satisfied and its callback is due, "done" when the callback has
\* returned, "unregistered"); signaled and waker are the fields of its
\* SharedState; task is the position of the task awaiting it ("unpolled",
\* "idle" after Poll::Pending, "woken", "ready" after Poll::Ready); frees
\* counts the calls of drop_shared_state and unregs those of
\* UnregisterWaitEx; setBefore records that the event was signaled when the
\* future was created and has not been reset since.  What a Drop frees is
\* no longer recorded.
EventNew(manuals, signals) ==
    /\ event \in [manual_reset : manuals, signaled : signals]
    /\ futures = [i \in 1..MaxFutures |->
                    [state |-> "none", wait |-> "none", signaled |-> FALSE,
                     waker |-> FALSE, task |-> "unpolled", frees |-> 0,
                     unregs |-> 0, setBefore |-> FALSE]]

\* the two commands of a status exchange
StatusCommands == {"M", "QS"}

\* a UPS that answers nothing
NoScript ==
    [sendDelay |-> [cmd \in StatusCommands |-> 0],
     sendFault |-> [cmd \in StatusCommands |-> FALSE],
     reply |-> [cmd \in StatusCommands |-> << >>]]

\* no transact_command has ended
NoTransact ==
    [kind |-> "none", text |-> << >>, error |-> "", cause |-> "none",
     unread |-> 0, elapsed |-> 0]

\* VoltronicHidUps::new, and status() not called yet
ExchangeNew(scripts) ==
    /\ stScript \in scripts
    /\ stPc = "idle"
    /\ stCmd = "none"
    /\ stSent = << >>
    /\ stPending = << >>
    /\ stBuffer = << >>
    /\ stElapsed = 0
    /\ stLast = [cmd \in StatusCommands |-> NoTransact]
    /\ stResult = [kind |-> "none", error |-> "", status |-> << >>]

Init ==
    /\ ServiceInit
    /\ SessionNew({1})
    /\ ParseNew({<< >>})
    /\ EventNew({TRUE}, {FALSE})
    /\ ExchangeNew({NoScript})

(* -------------------------- watch channel ----------------------------- *)

\* rx.changed() is ready: the channel's version differs from the receiver's
Changed(ver) == ver # chanVersion

\* the closure a caller hands to wait_for_ups_status, applied to a status
predicate(wait, flags) ==
    CASE wait = "power_loss" -> IsPowerLoss(flags)
      [] wait = "low_battery" -> IsLowBattery(flags)
      [] wait = "power_recovery" -> IsPowerRecovery(flags)

\* one poll of wait_for_ups_status returns Ok(()): a change is pending, the
\* borrowed value is Some and the predicate accepts it
WaitReady(ver, wait) ==
    /\ Changed(ver)
    /\ chanValue # None
    /\ predicate(wait, chanValue[1])

(* --------------------------- environment ------------------------------ *)

\* run_service that falls back to RuntimeConfig::default() when the
\* configuration cannot be read
ReadConfig_UsesDefault ==
    /\ pc = "start"
    /\ \E ok \in BOOLEAN :
          /\ configRead' = IF ok THEN "ok" ELSE "err"
          /\ pc' = "S0"
          /\ pollerPc' = "open"
          /\ svcStatus' = Status("SERVICE_RUNNING", "ERROR_SUCCESS")
    /\ UNCHANGED << hibernate, shutdown_timeout_s, sessVars, auxVars, chanValue, chanVersion, allLine,
                    openHandles, sessFailed, sched, rxVars, timer, wakeup,
                    sigVars, stopRequested, error, notifyCount, cycles,
                    cycleVars, graceBranch, resumeBranch, setSinceReset,
                    wakeSets, staleCleared, lastSup >>

\* run_service, lines 223-235: RuntimeConfig::read().  On Err the error is
\* logged, SERVICE_STOPPED is reported with ERROR_BADKEY and run_service
\* returns; on Ok the channel is created, SERVICE_RUNNING is reported and
\* select! is entered with the poller and main_loop
ReadConfig ==
    /\ pc = "start"
    /\ \E ok \in BOOLEAN :
          IF ok
          THEN /\ configRead' = "ok"
               /\ pc' = "S0"
               /\ pollerPc' = "open"
               /\ svcStatus' = Status("SERVICE_RUNNING", "ERROR_SUCCESS")
          ELSE /\ configRead' = "err"
               /\ pc' = "stopped"
               /\ pollerPc' = pollerPc
               /\ svcStatus' = Status("SERVICE_STOPPED", "ERROR_BADKEY")
    /\ UNCHANGED << hibernate, shutdown_timeout_s, sessVars, auxVars, chanValue, chanVersion, allLine,
                    openHandles, sessFailed, sched, rxVars, timer, wakeup,
                    sigVars, stopRequested, error, notifyCount, cycles,
                    cycleVars, graceBranch, resumeBranch, setSinceReset,
                    wakeSets, staleCleared, lastSup >>

\* main_loop is parked at one of its awaits, or run_service's select! has
\* not polled it yet: the other branches of that select! can be polled
Parked ==
    /\ pc \in WaitStates
    /\ sched # "first" \/ lastSup = "none"

\* the poller is polled: run_service's task runs main_loop and ups_query_task
\* on one thread, so the poller advances only while main_loop is parked
PollerRuns == Parked

\* a poller that backs off and tries again when the device cannot be opened
OpenDevice_Retries ==
    /\ PollerRuns
    /\ pollerPc = "open"
    /\ \E ok \in BOOLEAN :
          IF ok
          THEN /\ pollerPc' = "status"
               /\ openHandles' = openHandles + 1
               /\ sessFailed' = FALSE
          ELSE /\ pollerPc' = "backoff"
               /\ UNCHANGED << openHandles, sessFailed >>
    /\ UNCHANGED << cfgVars, sessVars, auxVars, chanValue, chanVersion, allLine, pc,
                    sched, rxVars, timer, wakeup, sigVars, stopRequested,
                    svcStatus, error, notifyCount, cycles, cycleVars,
                    graceBranch, resumeBranch, setSinceReset, wakeSets,
                    staleCleared, lastSup >>

\* ups_query_task, lines 268-279: HidDevice::new(..).await? and the session
\* constructor; an error here is returned from the task and run_service
\* reports SERVICE_STOPPED with ERROR_ARENA_TRASHED, dropping main_loop
OpenDevice ==
    /\ PollerRuns
    /\ pollerPc = "open"
    /\ \E ok \in BOOLEAN :
          IF ok
          THEN /\ pollerPc' = "status"
               /\ openHandles' = openHandles + 1
               /\ sessFailed' = FALSE
               /\ UNCHANGED << pc, sigVars, svcStatus >>
          ELSE /\ pollerPc' = "failed"
               /\ openHandles' = 0
               /\ sessFailed' = sessFailed
               /\ pc' = "stopped"
               /\ registered' = FALSE
               /\ sigFlag' = FALSE
               /\ waker' = FALSE
               /\ svcStatus' = Status("SERVICE_STOPPED", "ERROR_ARENA_TRASHED")
    /\ UNCHANGED << cfgVars, sessVars, auxVars, chanValue, chanVersion, allLine, sched, rxVars,
                    timer, wakeup, stopRequested, error, notifyCount, cycles,
                    cycleVars, graceBranch, resumeBranch, setSinceReset,
                    wakeSets, staleCleared, lastSup >>

\* service_main, lines 171-174: a panic of the poller unwinds out of
\* run_service and the process aborts without reporting a status.  The
\* poller panics when the device query does not find exactly one device
\* (hid_device.rs:32) and on the unwrap and todo of a status exchange
\* (voltronic_hid_ups.rs:126, 155).
PollerPanics ==
    /\ PollerRuns
    /\ pollerPc \in {"open", "status"}
    /\ pollerPc' = "panicked"
    /\ UNCHANGED << openHandles, sessFailed >>
    /\ pc' = "stopped"
    /\ registered' = FALSE
    /\ sigFlag' = FALSE
    /\ waker' = FALSE
    /\ UNCHANGED << cfgVars, sessVars, auxVars, chanValue, chanVersion, allLine, sched, rxVars,
                    timer, wakeup, stopRequested, svcStatus, error,
                    notifyCount, cycles, cycleVars, graceBranch, resumeBranch,
                    setSinceReset, wakeSets, staleCleared, lastSup >>

\* a poller that publishes None when a status exchange fails
StatusFails_ClearsChannel ==
    /\ PollerRuns
    /\ pollerPc = "status"
    /\ pollerPc' = "backoff"
    /\ openHandles' = openHandles - 1
    /\ sessFailed' = TRUE
    /\ chanValue' = None
    /\ chanVersion' = chanVersion
    /\ allLine' = allLine
    /\ UNCHANGED << cfgVars, sessVars, auxVars, pc, sched,
                    rxVars, timer, wakeup, sigVars, stopRequested, svcStatus,
                    error, notifyCount, cycles, cycleVars, graceBranch,
                    resumeBranch, setSinceReset, wakeSets, staleCleared,
                    lastSup >>

\* a poller that asks the same session again after a failed status()
StatusFails_KeepsSession ==
    /\ PollerRuns
    /\ pollerPc = "status"
    /\ pollerPc' = "status"
    /\ openHandles' = openHandles
    /\ sessFailed' = TRUE
    /\ UNCHANGED << cfgVars, sessVars, auxVars, chanValue, chanVersion, allLine, pc,
                    sched, rxVars, timer, wakeup, sigVars, stopRequested,
                    svcStatus, error, notifyCount, cycles, cycleVars,
                    graceBranch, resumeBranch, setSinceReset, wakeSets,
                    staleCleared, lastSup >>

\* ups_query_task, lines 281-284: ups.status() returned Err, the while-let
\* loop ends and the session and its device are dropped; nothing is sent
StatusFails ==
    /\ PollerRuns
    /\ pollerPc = "status"
    /\ pollerPc' = "backoff"
    /\ openHandles' = openHandles - 1
    /\ sessFailed' = TRUE
    /\ UNCHANGED << cfgVars, sessVars, auxVars, chanValue, chanVersion, allLine, pc, sched,
                    rxVars, timer, wakeup, sigVars, stopRequested, svcStatus,
                    error, notifyCount, cycles, cycleVars, graceBranch,
                    resumeBranch, setSinceReset, wakeSets, staleCleared,
                    lastSup >>

\* ups_query_task, lines 287-288: sleep(poll_failure_timeout) has elapsed and
\* the outer loop starts over
Backoff ==
    /\ PollerRuns
    /\ pollerPc = "backoff"
    /\ pollerPc' = "open"
    /\ openHandles' = openHandles
    /\ sessFailed' = FALSE
    /\ UNCHANGED << cfgVars, sessVars, auxVars, chanValue, chanVersion, allLine, pc, sched,
                    rxVars, timer, wakeup, sigVars, stopRequested, svcStatus,
                    error, notifyCount, cycles, cycleVars, graceBranch,
                    resumeBranch, setSinceReset, wakeSets, staleCleared,
                    lastSup >>

\* ups_query_task, lines 281-283: ups.status() returned Ok(status), then
\* tx.send(Some(status)) and sleep(poll_interval)
Publish(flags) ==
    /\ PollerRuns
    /\ pollerPc = "status"
    /\ chanVersion < MaxPublish
    /\ chanValue' = Some(flags)
    /\ chanVersion' = chanVersion + 1
    /\ allLine' = (allLine /\ work_mode(flags) = "Line")
    /\ pollerPc' = "status"
    /\ UNCHANGED << openHandles, sessFailed >>
    /\ sched' = "woken"
    /\ UNCHANGED << cfgVars, sessVars, auxVars, pc, rxVars, timer, wakeup, sigVars,
                    stopRequested, svcStatus, error, notifyCount, cycles, cycleVars,
                    graceBranch, resumeBranch, setSinceReset, wakeSets,
                    staleCleared, lastSup >>

\* a sleep whose expiry does not wake the task that awaits it
Tick_NoWake ==
    /\ pc = "S1"
    /\ sched # "first"
    /\ timer > 0
    /\ timer' = timer - 1
    /\ sched' = sched
    /\ UNCHANGED << cfgVars, sessVars, auxVars, chanVars, pc, rxVars, wakeup, sigVars,
                    stopRequested, svcStatus, error, notifyCount, cycles, cycleVars,
                    graceBranch, resumeBranch, setSinceReset, wakeSets,
                    staleCleared, lastSup >>

\* time passes while sleep(shutdown_timeout) is pending
Tick ==
    /\ pc = "S1"
    /\ sched # "first"
    /\ timer > 0
    /\ timer' = timer - 1
    /\ sched' = IF timer = 1 THEN "woken" ELSE sched
    /\ UNCHANGED << cfgVars, sessVars, auxVars, chanVars, pc, rxVars, wakeup, sigVars,
                    stopRequested, svcStatus, error, notifyCount, cycles, cycleVars,
                    graceBranch, resumeBranch, setSinceReset, wakeSets,
                    staleCleared, lastSup >>

\* control_handler, SERVICE_CONTROL_POWEREVENT / PBT_APMRESUMEAUTOMATIC:
\* WAKEUP.set(); a failure is only logged
WakeupSet ==
    /\ ControlsAccepted
    /\ wakeSets < MaxWakeups
    /\ wakeSets' = wakeSets + 1
    /\ \E ok \in BOOLEAN :
          IF ok
          THEN wakeup' = TRUE /\ setSinceReset' = TRUE
          ELSE UNCHANGED << wakeup, setSinceReset >>
    /\ UNCHANGED << cfgVars, sessVars, auxVars, chanVars, pc, sched, rxVars, timer, sigVars,
                    stopRequested, svcStatus, error, notifyCount, cycles, cycleVars,
                    graceBranch, resumeBranch, staleCleared, lastSup >>

\* a stop notification that is lost unless run_service's select! already
\* waits for it (notify_waiters instead of notify_one)
ControlStop_NoPermit ==
    /\ ControlsAccepted
    /\ ~stopRequested
    /\ svcStatus' = Status("SERVICE_STOP_PENDING", "ERROR_SUCCESS")
    /\ stopRequested' = (lastSup # "none")
    /\ UNCHANGED << cfgVars, sessVars, auxVars, chanVars, pc, sched, rxVars, timer, wakeup,
                    sigVars, error, notifyCount, cycles, cycleVars,
                    graceBranch, resumeBranch, setSinceReset, wakeSets,
                    staleCleared, lastSup >>

\* control_handler, SERVICE_CONTROL_STOP: reports SERVICE_STOP_PENDING, then
\* SHUTDOWN.notify_one(), which stores a permit when nobody waits yet
ControlStop ==
    /\ ControlsAccepted
    /\ ~stopRequested
    /\ svcStatus' = Status("SERVICE_STOP_PENDING", "ERROR_SUCCESS")
    /\ stopRequested' = TRUE
    /\ UNCHANGED << cfgVars, sessVars, auxVars, chanVars, pc, sched, rxVars, timer, wakeup,
                    sigVars, error, notifyCount, cycles, cycleVars,
                    graceBranch, resumeBranch, setSinceReset, wakeSets,
                    staleCleared, lastSup >>

\* run_service, lines 256-259: the SHUTDOWN.notified() branch of select!
\* takes the permit; the poller and main_loop futures are dropped and
\* SERVICE_STOPPED is reported with ERROR_SUCCESS
ServiceStop ==
    /\ stopRequested
    /\ Parked
    /\ pc' = "stopped"
    /\ pollerPc' = "dropped"
    /\ openHandles' = 0
    /\ sessFailed' = FALSE
    /\ registered' = FALSE
    /\ sigFlag' = FALSE
    /\ waker' = FALSE
    /\ svcStatus' = Status("SERVICE_STOPPED", "ERROR_SUCCESS")
    /\ UNCHANGED << cfgVars, sessVars, auxVars, chanValue, chanVersion, allLine, sched, rxVars,
                    timer, wakeup, stopRequested, error, notifyCount, cycles,
                    cycleVars, graceBranch, resumeBranch, setSinceReset,
                    wakeSets, staleCleared, lastSup >>

\* run_service, lines 247-251: main_loop returned Err; the error is logged,
\* the poller future is dropped and SERVICE_STOPPED is reported with
\* ERROR_ARENA_TRASHED
ServiceFail ==
    /\ pc = "failed"
    /\ svcStatus.dwCurrentState # "SERVICE_STOPPED"
    /\ pollerPc' = "dropped"
    /\ openHandles' = 0
    /\ sessFailed' = FALSE
    /\ svcStatus' = Status("SERVICE_STOPPED", "ERROR_ARENA_TRASHED")
    /\ UNCHANGED << cfgVars, sessVars, auxVars, chanValue, chanVersion, allLine, pc, sched,
                    rxVars, timer, wakeup, sigVars, stopRequested, error,
                    notifyCount, cycles, cycleVars, graceBranch, resumeBranch,
                    setSinceReset, wakeSets, staleCleared, lastSup >>

\* wait_callback that sets the flag but drops the waker without waking it
WaitCallback_NoWake ==
    /\ registered
    /\ wakeup
    /\ ~sigFlag
    /\ sigFlag' = TRUE
    /\ waker' = FALSE
    /\ sched' = sched
    /\ UNCHANGED << cfgVars, sessVars, auxVars, chanVars, pc, rxVars, timer, wakeup,
                    registered, stopRequested, svcStatus, error, notifyCount, cycles,
                    cycleVars, graceBranch, resumeBranch, setSinceReset,
                    wakeSets, staleCleared, lastSup >>

\* Signaled::wait_callback on a thread-pool thread (WT_EXECUTEONLYONCE)
WaitCallback ==
    /\ registered
    /\ wakeup
    /\ ~sigFlag
    /\ sigFlag' = TRUE
    /\ waker' = FALSE
    /\ sched' = IF waker THEN "woken" ELSE sched
    /\ UNCHANGED << cfgVars, sessVars, auxVars, chanVars, pc, rxVars, timer, wakeup,
                    registered, stopRequested, svcStatus, error, notifyCount, cycles,
                    cycleVars, graceBranch, resumeBranch, setSinceReset,
                    wakeSets, staleCleared, lastSup >>

(* ----------------------------- supervisor ----------------------------- *)

\* main_loop that starts the grace select! without calling
\* send_shutdown_message
PollPowerLoss_NoBroadcast ==
    /\ pc = "S0"
    /\ sched # "idle"
    /\ lastSup' = "wait_for_power_loss"
    /\ IF WaitReady(lossVer, "power_loss")
       THEN /\ pc' = "S1_start"
            /\ sched' = "first"
            /\ lossVer' = InitialVersion
            /\ cycles' = cycles + 1
            /\ cycleResets' = 0
            /\ cycleShutdowns' = 0
            /\ cycleRequests' = << >>
            /\ enteredS2' = FALSE
            /\ apiCalls' = << >>
            /\ graceBranch' = "none"
            /\ resumeBranch' = "none"
       ELSE /\ lossVer' = chanVersion
            /\ sched' = "idle"
            /\ UNCHANGED << pc, cycles, cycleVars, graceBranch, resumeBranch >>
    /\ UNCHANGED << cfgVars, sessVars, auxVars, chanVars, lowVer, recVer, timer, wakeup,
                    sigVars, stopRequested, svcStatus, error, notifyCount,
                    setSinceReset, wakeSets, staleCleared >>

\* main_loop, line 297: one poll of wait_for_power_loss(rx.clone()).  The
\* clone starts at rx's version, so the first poll looks at the current value.
PollPowerLoss ==
    /\ pc = "S0"
    /\ sched # "idle"
    /\ lastSup' = "wait_for_power_loss"
    /\ IF WaitReady(lossVer, "power_loss")
       THEN /\ pc' = "S1_notify"
            /\ sched' = "first"
            /\ lossVer' = InitialVersion
            /\ cycles' = cycles + 1
            /\ cycleResets' = 0
            /\ cycleShutdowns' = 0
            /\ cycleRequests' = << >>
            /\ enteredS2' = FALSE
            /\ apiCalls' = << >>
            /\ graceBranch' = "none"
            /\ resumeBranch' = "none"
       ELSE /\ lossVer' = chanVersion
            /\ sched' = "idle"
            /\ UNCHANGED << pc, cycles, cycleVars, graceBranch, resumeBranch >>
    /\ UNCHANGED << cfgVars, sessVars, auxVars, chanVars, lowVer, recVer, timer, wakeup,
                    sigVars, stopRequested, svcStatus, error, notifyCount,
                    setSinceReset, wakeSets, staleCleared >>

\* send_shutdown_message called a second time for the same power loss
SendShutdownMessage_Twice ==
    /\ pc = "S1_notify"
    /\ notifyCount' = notifyCount + 2
    /\ pc' = "S1_start"
    /\ lastSup' = "send_shutdown_message"
    /\ UNCHANGED << cfgVars, sessVars, auxVars, chanVars, sched, rxVars, timer, wakeup,
                    sigVars, stopRequested, svcStatus, error, cycles, cycleVars,
                    graceBranch, resumeBranch, setSinceReset, wakeSets,
                    staleCleared >>

\* main_loop, line 302: send_shutdown_message broadcasts the warning
SendShutdownMessage ==
    /\ pc = "S1_notify"
    /\ notifyCount' = notifyCount + 1
    /\ pc' = "S1_start"
    /\ lastSup' = "send_shutdown_message"
    /\ UNCHANGED << cfgVars, sessVars, auxVars, chanVars, sched, rxVars, timer, wakeup,
                    sigVars, stopRequested, svcStatus, error, cycles, cycleVars,
                    graceBranch, resumeBranch, setSinceReset, wakeSets,
                    staleCleared >>

\* a grace select! that keeps the sleep of the previous grace period
StartGrace_StaleTimer ==
    /\ pc = "S1_start"
    /\ timer' = timer
    /\ lowVer' = InitialVersion
    /\ recVer' = InitialVersion
    /\ pc' = "S1"
    /\ sched' = "first"
    /\ lastSup' = "select_grace"
    /\ UNCHANGED << cfgVars, sessVars, auxVars, chanVars, lossVer, wakeup, sigVars,
                    stopRequested, svcStatus, error, notifyCount, cycles,
                    cycleVars, graceBranch, resumeBranch, setSinceReset,
                    wakeSets, staleCleared >>

\* a grace select! whose receivers have already seen the current value
\* (tx.subscribe() in place of rx.clone())
StartGrace_SeenAlready ==
    /\ pc = "S1_start"
    /\ timer' = shutdown_timeout_s
    /\ lowVer' = chanVersion
    /\ recVer' = chanVersion
    /\ pc' = "S1"
    /\ sched' = "first"
    /\ lastSup' = "select_grace"
    /\ UNCHANGED << cfgVars, sessVars, auxVars, chanVars, lossVer, wakeup, sigVars,
                    stopRequested, svcStatus, error, notifyCount, cycles, cycleVars,
                    graceBranch, resumeBranch, setSinceReset, wakeSets,
                    staleCleared >>

\* main_loop, lines 304-316: select! creates sleep(shutdown_timeout),
\* wait_for_low_battery(rx.clone()) and wait_for_power_recovery(rx.clone())
StartGrace ==
    /\ pc = "S1_start"
    /\ timer' = shutdown_timeout_s
    /\ lowVer' = InitialVersion
    /\ recVer' = InitialVersion
    /\ pc' = "S1"
    /\ sched' = "first"
    /\ lastSup' = "select_grace"
    /\ UNCHANGED << cfgVars, sessVars, auxVars, chanVars, lossVer, wakeup, sigVars,
                    stopRequested, svcStatus, error, notifyCount, cycles, cycleVars,
                    graceBranch, resumeBranch, setSinceReset, wakeSets,
                    staleCleared >>

\* the branches of the grace select! that are ready at a poll
GraceReady ==
    (IF timer = 0 THEN {"timer"} ELSE {})
    \cup (IF WaitReady(lowVer, "low_battery") THEN {"low"} ELSE {})
    \cup (IF WaitReady(recVer, "power_recovery") THEN {"recovery"} ELSE {})

\* main_loop, lines 304-321: one poll of the grace select!.  select! polls
\* its branches in random order and takes the first that is ready.
PollGrace ==
    /\ pc = "S1"
    /\ sched # "idle"
    /\ lastSup' = "select_grace"
    /\ IF GraceReady = {}
       THEN /\ lowVer' = chanVersion
            /\ recVer' = chanVersion
            /\ sched' = "idle"
            /\ UNCHANGED << pc, graceBranch >>
       ELSE /\ \E b \in GraceReady :
                 /\ graceBranch' = b
                 /\ pc' = IF b = "recovery" THEN "S0" ELSE "S1_reset"
            /\ lowVer' = InitialVersion
            /\ recVer' = InitialVersion
            /\ sched' = "first"
    /\ UNCHANGED << cfgVars, sessVars, auxVars, chanVars, lossVer, timer, wakeup, sigVars,
                    stopRequested, svcStatus, error, notifyCount, cycles, cycleVars,
                    resumeBranch, setSinceReset, wakeSets, staleCleared >>

\* WAKEUP.reset() whose result is dropped instead of propagated with ?
ResetWakeup_Ignored ==
    /\ pc = "S1_reset"
    /\ lastSup' = "reset"
    /\ pc' = "S1_shutdown"
    /\ error' = error
    /\ \E ok \in BOOLEAN :
          IF ok
          THEN /\ wakeup' = FALSE
               /\ setSinceReset' = FALSE
               /\ staleCleared' = wakeup
               /\ cycleResets' = cycleResets + 1
          ELSE UNCHANGED << wakeup, setSinceReset, cycleResets,
                            staleCleared >>
    /\ UNCHANGED << cfgVars, sessVars, auxVars, chanVars, sched, rxVars, timer, sigVars,
                    stopRequested, svcStatus, notifyCount, cycles, cycleShutdowns,
                    cycleRequests, enteredS2, apiCalls, graceBranch, resumeBranch,
                    wakeSets >>

\* WAKEUP.reset() that leaves the event signaled
ResetWakeup_NoClear ==
    /\ pc = "S1_reset"
    /\ lastSup' = "reset"
    /\ \E ok \in BOOLEAN :
          IF ok
          THEN /\ wakeup' = wakeup
               /\ setSinceReset' = FALSE
               /\ staleCleared' = wakeup
               /\ cycleResets' = cycleResets + 1
               /\ pc' = "S1_shutdown"
               /\ error' = error
          ELSE /\ pc' = "failed"
               /\ error' = "reset"
               /\ UNCHANGED << wakeup, setSinceReset, cycleResets,
                               staleCleared >>
    /\ UNCHANGED << cfgVars, sessVars, auxVars, chanVars, sched, rxVars, timer, sigVars,
                    stopRequested, svcStatus, notifyCount, cycles, cycleShutdowns,
                    cycleRequests, enteredS2, apiCalls, graceBranch, resumeBranch,
                    wakeSets >>

\* main_loop, lines 307 and 313: WAKEUP.reset()?
ResetWakeup ==
    /\ pc = "S1_reset"
    /\ lastSup' = "reset"
    /\ \E ok \in BOOLEAN :
          IF ok
          THEN /\ wakeup' = FALSE
               /\ setSinceReset' = FALSE
               /\ staleCleared' = wakeup
               /\ cycleResets' = cycleResets + 1
               /\ pc' = "S1_shutdown"
               /\ error' = error
          ELSE /\ pc' = "failed"
               /\ error' = "reset"
               /\ UNCHANGED << wakeup, setSinceReset, cycleResets,
                               staleCleared >>
    /\ UNCHANGED << cfgVars, sessVars, auxVars, chanVars, sched, rxVars, timer, sigVars,
                    stopRequested, svcStatus, notifyCount, cycles, cycleShutdowns,
                    cycleRequests, enteredS2, apiCalls, graceBranch, resumeBranch,
                    wakeSets >>

\* the places where initiate_shutdown can return Err, in order
ShutdownFailures == {"impersonate", "token", "privilege", "request"}

\* initiate_shutdown that ignores its hibernate argument
PowerRequest_AlwaysShutdown == "shutdown"

\* the power-control request initiate_shutdown issues
PowerRequest == IF hibernate THEN "hibernate" ELSE "shutdown"

\* one Win32 call: the function, its arguments in call order, its success
Call(api, args, ok) == [api |-> api, args |-> args, ok |-> ok]

\* SHTDN_REASON_MAJOR_POWER | SHTDN_REASON_MINOR_ENVIRONMENT
ShutdownReason == << "SHTDN_REASON_MAJOR_POWER", "SHTDN_REASON_MINOR_ENVIRONMENT" >>

\* initiate_shutdown that forces the suspend and force-closes applications
PowerCall_Forced(ok) ==
    IF PowerRequest = "hibernate"
    THEN Call("SetSuspendState", << TRUE, TRUE, TRUE >>, ok)
    ELSE Call("InitiateSystemShutdownExW",
              << "None", "None", 0, TRUE, FALSE, ShutdownReason >>, ok)

\* initiate_shutdown, lines 395-413: SetSuspendState(true, false, true) when
\* hibernate, InitiateSystemShutdownExW(None, None, 0, false, false, reason)
\* otherwise
PowerCall(ok) ==
    IF PowerRequest = "hibernate"
    THEN Call("SetSuspendState", << TRUE, FALSE, TRUE >>, ok)
    ELSE Call("InitiateSystemShutdownExW",
              << "None", "None", 0, FALSE, FALSE, ShutdownReason >>, ok)

\* initiate_shutdown whose error returns skip the release of what was acquired
ShutdownCalls_LeakOnError(fail) ==
    LET imp == Call("ImpersonateSelf", << >>, fail # "impersonate")
        tok == Call("OpenThreadToken", << >>, fail # "token")
        prv == Call("AdjustTokenPrivileges", << >>, fail # "privilege")
        pow == PowerCall(fail # "request")
        close == Call("CloseHandle", << >>, TRUE)
        revert == Call("RevertToSelf", << >>, TRUE)
    IN  CASE fail = "impersonate" -> << imp >>
          [] fail = "token" -> << imp, tok >>
          [] fail = "privilege" -> << imp, tok, prv >>
          [] fail = "request" -> << imp, tok, prv, pow >>
          [] OTHER -> << imp, tok, prv, pow, close, revert >>

\* initiate_shutdown, lines 387-416: the Win32 calls one execution makes.
\* _impersonator and thread_token are locals: when the function returns,
\* through ? or at its end, the ones already constructed are dropped in
\* reverse order of declaration (Token::drop closes the handle,
\* SelfImpersonator::drop reverts the impersonation).
ShutdownCalls(fail) ==
    LET imp == Call("ImpersonateSelf", << >>, fail # "impersonate")
        tok == Call("OpenThreadToken", << >>, fail # "token")
        prv == Call("AdjustTokenPrivileges", << >>, fail # "privilege")
        pow == PowerCall(fail # "request")
        close == Call("CloseHandle", << >>, TRUE)
        revert == Call("RevertToSelf", << >>, TRUE)
    IN  CASE fail = "impersonate" -> << imp >>
          [] fail = "token" -> << imp, tok, revert >>
          [] fail = "privilege" -> << imp, tok, prv, close, revert >>
          [] OTHER -> << imp, tok, prv, pow, close, revert >>

\* initiate_shutdown(config.hibernate) whose result is dropped: main_loop
\* goes on to the resume select! whether or not the call succeeded
InitiateShutdown_IgnoreError ==
    /\ pc = "S1_shutdown"
    /\ lastSup' = "initiate_shutdown"
    /\ cycleShutdowns' = cycleShutdowns + 1
    /\ \E fail \in ShutdownFailures \cup {"none"} :
          /\ apiCalls' = ShutdownCalls(fail)
          /\ cycleRequests' = IF fail \in {"request", "none"}
                              THEN Append(cycleRequests, PowerRequest)
                              ELSE cycleRequests
          /\ pc' = "S2_register"
          /\ enteredS2' = TRUE
          /\ error' = error
    /\ UNCHANGED << cfgVars, sessVars, auxVars, chanVars, sched, rxVars, timer, wakeup,
                    sigVars, stopRequested, svcStatus, notifyCount, cycles,
                    cycleResets, graceBranch, resumeBranch, setSinceReset,
                    wakeSets, staleCleared >>

\* main_loop, lines 308 and 314: initiate_shutdown(config.hibernate)?
InitiateShutdown ==
    /\ pc = "S1_shutdown"
    /\ lastSup' = "initiate_shutdown"
    /\ cycleShutdowns' = cycleShutdowns + 1
    /\ \E fail \in ShutdownFailures \cup {"none"} :
          /\ apiCalls' = ShutdownCalls(fail)
          /\ cycleRequests' = IF fail \in {"request", "none"}
                              THEN Append(cycleRequests, PowerRequest)
                              ELSE cycleRequests
          /\ IF fail = "none"
             THEN /\ pc' = "S2_register"
                  /\ enteredS2' = TRUE
                  /\ error' = error
             ELSE /\ pc' = "failed"
                  /\ error' = "shutdown"
                  /\ enteredS2' = enteredS2
    /\ UNCHANGED << cfgVars, sessVars, auxVars, chanVars, sched, rxVars, timer, wakeup,
                    sigVars, stopRequested, svcStatus, notifyCount, cycles,
                    cycleResets, graceBranch, resumeBranch, setSinceReset,
                    wakeSets, staleCleared >>

\* main_loop, lines 327-331: select! evaluates WAKEUP.signaled()? and
\* wait_for_power_recovery(rx.clone())
RegisterWait ==
    /\ pc = "S2_register"
    /\ lastSup' = "signaled"
    /\ \E ok \in BOOLEAN :
          IF ok
          THEN /\ registered' = TRUE
               /\ sigFlag' = FALSE
               /\ waker' = FALSE
               /\ recVer' = InitialVersion
               /\ pc' = "S2"
               /\ error' = error
          ELSE /\ pc' = "failed"
               /\ error' = "register"
               /\ UNCHANGED << sigVars, recVer >>
    /\ sched' = "first"
    /\ UNCHANGED << cfgVars, sessVars, auxVars, chanVars, lossVer, lowVer, timer, wakeup,
                    stopRequested, svcStatus, notifyCount, cycles, cycleVars,
                    graceBranch, resumeBranch, setSinceReset, wakeSets,
                    staleCleared >>

\* the resume select! without its wait_for_power_recovery branch
ResumeReady_NoLine ==
    IF sigFlag THEN {"wake"} ELSE {}

\* the branches of the resume select! that are ready at a poll
ResumeReady ==
    (IF sigFlag THEN {"wake"} ELSE {})
    \cup (IF WaitReady(recVer, "power_recovery") THEN {"line"} ELSE {})

\* main_loop, lines 327-335: one poll of the resume select!
PollResume ==
    /\ pc = "S2"
    /\ sched # "idle"
    /\ lastSup' = "select_resume"
    /\ IF ResumeReady = {}
       THEN /\ waker' = TRUE
            /\ recVer' = chanVersion
            /\ sched' = "idle"
            /\ UNCHANGED << pc, registered, sigFlag, resumeBranch >>
       ELSE /\ \E b \in ResumeReady : resumeBranch' = b
            /\ registered' = FALSE
            /\ sigFlag' = FALSE
            /\ waker' = FALSE
            /\ recVer' = InitialVersion
            /\ pc' = "S0"
            /\ sched' = "first"
    /\ UNCHANGED << cfgVars, sessVars, auxVars, chanVars, lossVer, lowVer, timer, wakeup,
                    stopRequested, svcStatus, error, notifyCount, cycles, cycleVars,
                    graceBranch, setSinceReset, wakeSets, staleCleared >>

(* ------------------------- VoltronicHidUps session -------------------- *)

REPORT_ID == 0

\* TERMINATOR, '\r'
TERMINATOR == 13

\* the commands callers pass to transact_command, as byte strings: "M" and
\* "QS" of the protocol, the empty command and one of the greatest length
Commands ==
    { << 77 >>, << 81, 83 >>, << >>, [i \in 1..MaxCmdLen |-> 81] }

\* send_command, lines 54-57: command.push(TERMINATOR); command.as_bytes()
Encode(command) == Append(command, TERMINATOR)

\* create_output_report whose size check forgets the report ID byte
create_output_report_NoIdByte(report_id, data, size) ==
    IF Len(data) > size
    THEN [ok |-> FALSE, report |-> << >>]
    ELSE [ok |-> TRUE,
          report |-> [i \in 1..size |->
                        IF i = 1 THEN report_id
                        ELSE IF i - 1 <= Len(data) THEN data[i - 1]
                        ELSE 0]]

\* HidDevice::create_output_report: Err when data does not fit behind the
\* report ID, else size bytes: the report ID, data, zeros
create_output_report(report_id, data, size) ==
    IF Len(data) > size - 1
    THEN [ok |-> FALSE, report |-> << >>]
    ELSE [ok |-> TRUE,
          report |-> [i \in 1..size |->
                        IF i = 1 THEN report_id
                        ELSE IF i - 1 <= Len(data) THEN data[i - 1]
                        ELSE 0]]

\* a MutexGuard that is leaked instead of dropped
Release_Leak(c) ==
    /\ lockOwner' = lockOwner
    /\ lockQueue' = lockQueue

\* drop of the MutexGuard held by c: the permit goes to the first waiter of
\* device.lock(), or back to the Mutex when nobody waits
Release(c) ==
    IF lockQueue = << >>
    THEN lockOwner' = 0 /\ lockQueue' = lockQueue
    ELSE lockOwner' = Head(lockQueue) /\ lockQueue' = Tail(lockQueue)

\* transact_command of c returns: its guard is dropped
EndCall(c, result) ==
    /\ callerPc' = [callerPc EXCEPT ![c] = "idle"]
    /\ Release(c)
    /\ packets' = 0
    /\ lastResult' = result

\* transact_command, line 45, with the guard held by c: send_command builds
\* the report and hands it to WriteAsync, or returns Err if it does not fit
BeginSend(c, command) ==
    LET made == create_output_report(REPORT_ID, Encode(command),
                                     output_report_size)
    IN  /\ lastCmd' = command
        /\ IF made.ok
           THEN /\ callerPc' = [callerPc EXCEPT ![c] = "sending"]
                /\ lastWrite' = made.report
                /\ lastOp' = [kind |-> "send", by |-> c]
                /\ opTick' = ~opTick
                /\ sendsOpen' = IF sendsOpen < 2 THEN sendsOpen + 1 ELSE 2
                /\ UNCHANGED << packets, lastResult >>
           ELSE /\ callerPc' = [callerPc EXCEPT ![c] = "idle"]
                /\ lastResult' = "does_not_fit"
                /\ UNCHANGED << packets, lastOp, opTick, sendsOpen,
                                lastWrite >>

\* transact_command that skips device.lock()
CallTransact_NoLock(c, command) ==
    /\ callerPc[c] = "idle"
    /\ BeginSend(c, command)
    /\ UNCHANGED << lockOwner, lockQueue >>
    /\ UNCHANGED << svcVars, auxVars, output_report_size >>

\* transact_command, line 44: c calls with a command and polls
\* device.lock(): it takes the free Mutex and goes on to send_command, or
\* joins the queue of waiters.  The command is not looked at before
\* send_command, so a waiter's command is drawn when it gets to send.
CallTransact(c, command) ==
    /\ callerPc[c] = "idle"
    /\ IF lockOwner = 0
       THEN /\ BeginSend(c, command)
            /\ lockOwner' = IF callerPc'[c] = "sending" THEN c ELSE 0
            /\ UNCHANGED lockQueue
       ELSE /\ callerPc' = [callerPc EXCEPT ![c] = "lock"]
            /\ lockQueue' = Append(lockQueue, c)
            /\ UNCHANGED << lastCmd, lockOwner, packets, lastOp, opTick,
                            sendsOpen, lastWrite, lastResult >>
    /\ UNCHANGED << svcVars, auxVars, output_report_size >>

\* transact_command, lines 44-45: the waiter c was handed the Mutex and is
\* polled
Acquired(c, command) ==
    /\ callerPc[c] = "lock"
    /\ lockOwner = c
    /\ BeginSend(c, command)
    /\ IF callerPc'[c] = "sending"
       THEN UNCHANGED << lockOwner, lockQueue >>
       ELSE Release(c)
    /\ UNCHANGED << svcVars, auxVars, output_report_size >>

\* how the write of send_command can end: written, an I/O error, or the
\* timeout of SEND_TIMEOUT_MS
SendOutcomes == {"ok", "io_error", "send_timeout"}

\* a transact_command that holds the guard for send_command only
SendDone_ReleasesLock(c, outcome) ==
    /\ callerPc[c] = "sending"
    /\ IF outcome = "ok"
       THEN /\ callerPc' = [callerPc EXCEPT ![c] = "recv"]
            /\ packets' = 0
            /\ lastOp' = [kind |-> "read", by |-> c]
            /\ opTick' = ~opTick
            /\ Release(c)
            /\ UNCHANGED lastResult
       ELSE /\ EndCall(c, outcome)
            /\ UNCHANGED << lastOp, opTick >>
    /\ UNCHANGED << svcVars, auxVars, output_report_size, lastCmd, sendsOpen,
                    lastWrite >>

\* send_command, lines 58-64, then read_response issues its first read
SendDone(c, outcome) ==
    /\ callerPc[c] = "sending"
    /\ IF outcome = "ok"
       THEN /\ callerPc' = [callerPc EXCEPT ![c] = "recv"]
            /\ packets' = 0
            /\ lastOp' = [kind |-> "read", by |-> c]
            /\ opTick' = ~opTick
            /\ UNCHANGED << lockOwner, lockQueue, lastResult >>
       ELSE /\ EndCall(c, outcome)
            /\ UNCHANGED << lastOp, opTick >>
    /\ UNCHANGED << svcVars, auxVars, output_report_size, lastCmd, sendsOpen,
                    lastWrite >>

\* how one read_single_response_packet, or the receive around it, can end
ReadOutcomes ==
    {"packet", "last_packet", "not_utf8", "bad_report_id", "io_error",
     "packet_timeout", "total_timeout"}

\* the receive completed: a packet with the terminator was read
CompleteReceive(outcome) == outcome \in {"last_packet", "not_utf8"}

\* read_response, lines 67-82, and read_all_response_packets: a packet
\* without terminator is followed by another read, a packet with the
\* terminator ends the receive, everything else is an error
ReadDone(c, outcome) ==
    /\ callerPc[c] = "recv"
    /\ IF outcome = "packet"
       THEN /\ packets < MaxPackets
            /\ packets' = packets + 1
            /\ lastOp' = [kind |-> "read", by |-> c]
            /\ opTick' = ~opTick
            /\ UNCHANGED << callerPc, lockOwner, lockQueue, lastResult,
                            sendsOpen >>
       ELSE /\ EndCall(c, IF outcome = "last_packet" THEN "ok" ELSE outcome)
            /\ sendsOpen' = IF CompleteReceive(outcome) THEN 0 ELSE sendsOpen
            /\ UNCHANGED << lastOp, opTick >>
    /\ UNCHANGED << svcVars, auxVars, output_report_size, lastCmd, lastWrite >>

\* the future of c's transact_command is dropped at one of its awaits: c
\* leaves the queue of the Mutex, or its guard is dropped
Cancel(c) ==
    /\ callerPc[c] \in {"lock", "sending", "recv"}
    /\ callerPc' = [callerPc EXCEPT ![c] = "idle"]
    /\ lastResult' = "cancelled"
    /\ IF lockOwner = c
       THEN Release(c) /\ packets' = 0
       ELSE /\ lockQueue' = SelectSeq(lockQueue, LAMBDA w : w # c)
            /\ UNCHANGED << lockOwner, packets >>
    /\ UNCHANGED << svcVars, auxVars, output_report_size, lastCmd, lastOp, opTick,
                    sendsOpen, lastWrite >>

(* ---------------------------- status parsing -------------------------- *)

\* Text is a sequence of characters, each a string of length one.

HEADER == "("

\* '\r' as a character; TERMINATOR above is its byte
CR == "\r"

\* char::is_whitespace on the ASCII range
IsWhitespace(ch) == ch \in {" ", "\t", "\n", "\r"}

\* char::to_digit
DigitOf ==
    [ch \in {"0", "1", "2", "3", "4", "5", "6", "7", "8", "9"} |->
        CASE ch = "0" -> 0 [] ch = "1" -> 1 [] ch = "2" -> 2 [] ch = "3" -> 3
          [] ch = "4" -> 4 [] ch = "5" -> 5 [] ch = "6" -> 6 [] ch = "7" -> 7
          [] ch = "8" -> 8 [] ch = "9" -> 9]

IsDigit(ch, radix) == ch \in DOMAIN DigitOf /\ DigitOf[ch] < radix

\* str::split_whitespace: the maximal runs of characters that are not
\* whitespace, in order
split_whitespace(string) ==
    LET st[i \in 0..Len(string)] ==
            IF i = 0
            THEN [parts |-> << >>, word |-> << >>]
            ELSE LET p == st[i - 1]
                 IN  IF IsWhitespace(string[i])
                     THEN [parts |-> IF p.word = << >> THEN p.parts
                                     ELSE Append(p.parts, p.word),
                           word |-> << >>]
                     ELSE [parts |-> p.parts,
                           word |-> Append(p.word, string[i])]
        end == st[Len(string)]
    IN  IF end.word = << >> THEN end.parts ELSE Append(end.parts, end.word)

\* the digits of an unsigned integer: a leading '+' is dropped
UnsignedDigits(word) ==
    IF Len(word) >= 1 /\ word[1] = "+" THEN Tail(word) ELSE word

\* u8::from_str_radix(word, radix): empty input, a lone sign, a character
\* that is not a digit of the radix, and a value above 255 are errors
from_str_radix(word, radix) ==
    LET digits == UnsignedDigits(word)
        acc[i \in 0..Len(digits)] ==
            IF i = 0 THEN 0
            ELSE IF acc[i - 1] > 255 THEN 256
            ELSE acc[i - 1] * radix + DigitOf[digits[i]]
    IN  IF digits = << >> THEN << >>
        ELSE IF \E i \in 1..Len(digits) : ~IsDigit(digits[i], radix)
        THEN << >>
        ELSE IF acc[Len(digits)] > 255 THEN << >>
        ELSE << acc[Len(digits)] >>

\* the longest text whose value as a u32 is computed here; a longer one
\* without leading zeros is above u32::MAX
U32Digits == 9

\* str::parse::<u32>, for texts of up to nine digits or, without leading
\* zero, of more than ten
parse_u32(word) ==
    LET digits == UnsignedDigits(word)
        acc[i \in 0..Len(digits)] ==
            IF i = 0 THEN 0
            ELSE IF i > U32Digits THEN 0
            ELSE acc[i - 1] * 10 + DigitOf[digits[i]]
    IN  IF digits = << >> THEN << >>
        ELSE IF \E i \in 1..Len(digits) : ~IsDigit(digits[i], 10)
        THEN << >>
        ELSE IF Len(digits) > U32Digits THEN << >>
        ELSE << acc[Len(digits)] >>

\* f32::NAN
NaN == [nan |-> TRUE, neg |-> FALSE, mant |-> 0, scale |-> 0]

\* a decimal number: mant / 10^scale, negated if neg; trailing zeros of the
\* fraction do not change the number
Decimal(neg, mant, scale) ==
    LET cut[k \in 0..scale] ==
            IF k = 0 THEN [mant |-> mant, scale |-> scale]
            ELSE LET p == cut[k - 1]
                 IN  IF p.scale > 0 /\ p.mant % 10 = 0
                     THEN [mant |-> p.mant \div 10, scale |-> p.scale - 1]
                     ELSE p
    IN  [nan |-> FALSE, neg |-> neg, mant |-> cut[scale].mant,
         scale |-> cut[scale].scale]

\* a float parser that reads a text without digits as 0.0
parse_f32_Lenient(word) ==
    LET signed == Len(word) >= 1 /\ word[1] \in {"+", "-"}
        body == IF signed THEN Tail(word) ELSE word
        points == { i \in 1..Len(body) : body[i] = "." }
        digits == SelectSeq(body, LAMBDA ch : ch # ".")
        acc[i \in 0..Len(digits)] ==
            IF i = 0 THEN 0 ELSE acc[i - 1] * 10 + DigitOf[digits[i]]
        scale == IF points = {} THEN 0
                 ELSE Len(body) - (CHOOSE i \in points : TRUE)
    IN  IF \/ Cardinality(points) > 1
           \/ \E i \in 1..Len(digits) : ~IsDigit(digits[i], 10)
        THEN << >>
        ELSE << Decimal(signed /\ word[1] = "-", acc[Len(digits)], scale) >>

\* str::parse::<f32> on texts made of a sign, decimal digits and a point:
\* an optional sign, digits with at most one point, at least one digit
parse_f32(word) ==
    LET signed == Len(word) >= 1 /\ word[1] \in {"+", "-"}
        body == IF signed THEN Tail(word) ELSE word
        points == { i \in 1..Len(body) : body[i] = "." }
        digits == SelectSeq(body, LAMBDA ch : ch # ".")
        acc[i \in 0..Len(digits)] ==
            IF i = 0 THEN 0 ELSE acc[i - 1] * 10 + DigitOf[digits[i]]
        scale == IF points = {} THEN 0
                 ELSE Len(body) - (CHOOSE i \in points : TRUE)
    IN  IF \/ digits = << >>
           \/ Cardinality(points) > 1
           \/ \E i \in 1..Len(digits) : ~IsDigit(digits[i], 10)
        THEN << >>
        ELSE << Decimal(signed /\ word[1] = "-", acc[Len(digits)], scale) >>

\* Option::unwrap_or
unwrap_or(option, default) == IF option = << >> THEN default ELSE option[1]

BEEPER_ACTIVE == 1

UPS_SHUTDOWN_ACTIVE == 2

BOOST_OR_BUCK_MODE == 32

\* the constants of UpsStatusFlags
AllFlags ==
    {BEEPER_ACTIVE, UPS_SHUTDOWN_ACTIVE, SELF_TEST_IN_PROGRESS,
     UPS_LINE_INTERACTIVE, UPS_FAULT, BOOST_OR_BUCK_MODE, BATTERY_LOW,
     UTILITY_FAIL}

\* a bitflags type that lacks the BOOST_OR_BUCK_MODE constant
from_bits_NoBoost(bits) ==
    IF \A bit \in {1, 2, 4, 8, 16, 32, 64, 128} :
          Contains(bits, bit) => bit \in AllFlags \ {BOOST_OR_BUCK_MODE}
    THEN << bits >>
    ELSE << >>

\* UpsStatusFlags::from_bits: None when a bit is set that no constant names
from_bits(bits) ==
    IF \A bit \in {1, 2, 4, 8, 16, 32, 64, 128} :
          Contains(bits, bit) => bit \in AllFlags
    THEN << bits >>
    ELSE << >>

\* what a parser returns: Ok(status), Err(error), or a panic
ParseOk(snapshot) ==
    [kind |-> "ok", error |-> "", status |-> << snapshot >>]

ParseErr(message) ==
    [kind |-> "err", error |-> message, status |-> << >>]

ParsePanic == [kind |-> "panic", error |-> "", status |-> << >>]

\* the struct expression of from_str and of VoltronicHidUps::status on the
\* eight parts of a response: a field that parses with a flags byte that
\* takes the byte 0 for the one that does not
UpsStatusOf_StrictFlags(parts) ==
    IF from_str_radix(parts[8], 2) = << >>
    THEN ParseErr("Unexpected flags")
    ELSE ParseOk([input_voltage |-> unwrap_or(parse_f32(parts[1]), NaN),
                  input_fault_voltage |-> unwrap_or(parse_f32(parts[2]), NaN),
                  output_voltage |-> unwrap_or(parse_f32(parts[3]), NaN),
                  output_load_level |-> unwrap_or(parse_u32(parts[4]), 0),
                  output_frequency |-> unwrap_or(parse_f32(parts[5]), NaN),
                  battery_voltage |-> unwrap_or(parse_f32(parts[6]), NaN),
                  internal_temperature |->
                      unwrap_or(parse_f32(parts[7]), NaN),
                  flags |-> from_str_radix(parts[8], 2)[1]])

\* the struct expression of from_str, lines 76-85, and of
\* VoltronicHidUps::status, lines 147-156, on the eight parts of a response
UpsStatusOf(parts) ==
    LET flags == from_bits(unwrap_or(from_str_radix(parts[8], 2), 0))
    IN  IF flags = << >>
        THEN ParsePanic
        ELSE ParseOk(
               [input_voltage |-> unwrap_or(parse_f32(parts[1]), NaN),
                input_fault_voltage |-> unwrap_or(parse_f32(parts[2]), NaN),
                output_voltage |-> unwrap_or(parse_f32(parts[3]), NaN),
                output_load_level |-> unwrap_or(parse_u32(parts[4]), 0),
                output_frequency |-> unwrap_or(parse_f32(parts[5]), NaN),
                battery_voltage |-> unwrap_or(parse_f32(parts[6]), NaN),
                internal_temperature |-> unwrap_or(parse_f32(parts[7]), NaN),
                flags |-> flags[1]])

\* the number of parts of a status response
StatusParts == 8

\* from_str that accepts a response of eight parts or more
from_str_AtLeastEight(string) ==
    IF string = << >> THEN ParseErr("Status string too short")
    ELSE IF string[1] # HEADER
    THEN ParseErr("Unexpected status string header")
    ELSE IF string[Len(string)] # CR
    THEN ParseErr("Unexpected status string terminator")
    ELSE LET parts == split_whitespace(SubSeq(string, 2, Len(string) - 1))
         IN  IF Len(parts) < StatusParts
             THEN ParseErr("Unexpected number of status string parts")
             ELSE UpsStatusOf(parts)

\* UpsStatus::from_str, ups.rs lines 45-88
from_str(string) ==
    IF string = << >> THEN ParseErr("Status string too short")
    ELSE IF string[1] # HEADER
    THEN ParseErr("Unexpected status string header")
    ELSE IF string[Len(string)] # CR
    THEN ParseErr("Unexpected status string terminator")
    ELSE LET parts == split_whitespace(SubSeq(string, 2, Len(string) - 1))
         IN  IF Len(parts) # StatusParts
             THEN ParseErr("Unexpected number of status string parts")
             ELSE UpsStatusOf(parts)

\* read_response that returns the text before the last terminator
read_response_LastTerminator(bytes) ==
    LET ends == { i \in 1..Len(bytes) : bytes[i] = CR }
    IN  IF ends = {}
        THEN << >>
        ELSE << SubSeq(bytes, 1,
                       (CHOOSE i \in ends : \A j \in ends : i >= j) - 1) >>

\* VoltronicHidUps::read_response on the bytes the device sends: the
\* packets are read up to the first one with a terminator, and the text
\* before the first terminator is returned; without a terminator the
\* receive runs into its timeout
read_response(bytes) ==
    LET ends == { i \in 1..Len(bytes) : bytes[i] = CR }
    IN  IF ends = {}
        THEN << >>
        ELSE << SubSeq(bytes, 1,
                       (CHOOSE i \in ends : \A j \in ends : i <= j) - 1) >>

\* VoltronicHidUps::status that cuts the last character of the response
\* together with the header, as UpsStatus::from_str does with its string
status_CutsLast(bytes) ==
    LET response == read_response(bytes)
    IN  IF response = << >> THEN ParseErr("Receiving response timed-out")
        ELSE IF response[1] = << >> THEN ParseErr("QS response too short")
        ELSE IF response[1][1] # HEADER
        THEN ParseErr("Unexpected QS response header")
        ELSE LET parts == split_whitespace(
                              SubSeq(response[1], 2, Len(response[1]) - 1))
             IN  IF Len(parts) # StatusParts
                 THEN ParseErr("Unexpected number of QS response parts")
                 ELSE UpsStatusOf(parts)

\* VoltronicHidUps::status, lines 128-158, on the bytes the device sends in
\* answer to "QS"
status(bytes) ==
    LET response == read_response(bytes)
    IN  IF response = << >> THEN ParseErr("Receiving response timed-out")
        ELSE IF response[1] = << >> THEN ParseErr("QS response too short")
        ELSE IF response[1][1] # HEADER
        THEN ParseErr("Unexpected QS response header")
        ELSE LET parts == split_whitespace(Tail(response[1]))
             IN  IF Len(parts) # StatusParts
                 THEN ParseErr("Unexpected number of QS response parts")
                 ELSE UpsStatusOf(parts)

\* the payload of the spec's example response, field by field
ExampleFields ==
    << << "2", "2", "0", ".", "0" >>, << "2", "1", "9", ".", "5" >>,
       << "2", "2", "0", ".", "0" >>, << "0", "3", "5" >>,
       << "5", "0", ".", "0" >>, << "2", "7", ".", "5" >>,
       << "2", "5", ".", "0" >>,
       << "0", "0", "0", "0", "1", "0", "0", "0" >> >>

\* field contents a UPS may send in place of a number
Words ==
    { << "x" >>, << "+" >>, << "-" >>, << "." >>, << "5" >>, << "2" >>,
      << "-", "5" >>, << "+", "5" >>, << ".", "5" >>, << "5", "." >>,
      << "1", ".", "2", ".", "5" >>, << "1", "x" >>, << "1", "0", "1" >>,
      << "+", "1" >>, << "0", "0", "0", "0", "1", "0", "0", "0", "0" >>,
      << "1", "0", "0", "0", "0", "0", "0", "0", "0" >>,
      << "1", "1", "0", "0", "1", "0", "0", "0" >> }

\* a load level above u32::MAX
HugeLoad == [i \in 1..11 |-> "5"]

\* format!("{:08b}", bits): eight binary digits, most significant first
FormatBinary(bits) ==
    [i \in 1..8 |-> IF (bits \div (2 ^ (8 - i))) % 2 = 1 THEN "1" ELSE "0"]

\* fields joined by one space, except that sep follows field number sepAt
Join(fields, sepAt, sep) ==
    LET text[i \in 0..Len(fields)] ==
            IF i = 0 THEN << >>
            ELSE text[i - 1] \o fields[i]
                   \o (IF i = Len(fields) THEN << >>
                       ELSE IF i = sepAt THEN sep ELSE << " " >>)
    IN  text[Len(fields)]

\* the first count fields of the example, continued with fields "1"
FieldsOf(count) ==
    [i \in 1..count |-> IF i <= 8 THEN ExampleFields[i] ELSE << "1" >>]

\* texts that differ in their framing: header, field count, separators,
\* surrounding blanks and terminator
FramedTexts ==
    { header \o pre \o Join(FieldsOf(count), sepAt, sep) \o post \o term :
        header \in { << HEADER >>, << >>, << "x" >> },
        pre \in { << >>, << " " >> },
        count \in 0..MaxFields,
        sepAt \in 0..MaxFields,
        sep \in { << " ", " " >>, << "\t" >>, << "\n" >>, << CR >> },
        post \in { << >>, << " " >> },
        term \in { << CR >>, << >> } }

\* well-framed texts with one field replaced
ProbeTexts ==
    { << HEADER >> \o Join([ExampleFields EXCEPT ![at] = word], 0, << >>)
        \o << CR >> :
        at \in 1..8, word \in Words }
    \cup { << HEADER >>
             \o Join([ExampleFields EXCEPT ![4] = HugeLoad], 0, << >>)
             \o << CR >> }

\* well-framed texts with every flags byte, next to a voltage that parses
\* and one that does not
FlagTexts ==
    { << HEADER >>
        \o Join([ExampleFields EXCEPT ![1] = voltage,
                                      ![8] = FormatBinary(bits)], 0, << >>)
        \o << CR >> :
        voltage \in { ExampleFields[1], << "x" >> }, bits \in 0..255 }

\* the status texts of the parsing specification
StatusTexts == FramedTexts \cup ProbeTexts \cup FlagTexts

\* MegatecHidUps::status: the indexed string 3 of the device, parsed with
\* UpsStatus::from_str
MegatecStatus ==
    /\ parser = "none"
    /\ parser' = "from_str"
    /\ parsed' = from_str(input)
    /\ UNCHANGED << svcVars, sessVars, eventVars, exchVars, input, mode >>

\* VoltronicHidUps::status on the bytes the device answers to "QS"
VoltronicStatus ==
    /\ parser = "none"
    /\ parser' = "status"
    /\ parsed' = status(input)
    /\ UNCHANGED << svcVars, sessVars, eventVars, exchVars, input, mode >>

\* status.work_mode() of a snapshot a parser returned
WorkMode ==
    /\ parsed.kind = "ok"
    /\ mode = "none"
    /\ mode' = work_mode(parsed.status[1].flags)
    /\ UNCHANGED << svcVars, sessVars, eventVars, exchVars, input, parser, parsed >>

(* ------------------------------- Event -------------------------------- *)

\* Event::set: SetEvent
EventSet ==
    /\ ~event.signaled
    /\ event' = [event EXCEPT !.signaled = TRUE]
    /\ UNCHANGED << svcVars, sessVars, parseVars, exchVars, futures >>

\* Event::reset: ResetEvent
EventReset ==
    /\ event.signaled
    /\ event' = [event EXCEPT !.signaled = FALSE]
    /\ futures' = [i \in 1..MaxFutures |->
                     [futures[i] EXCEPT !.setBefore = FALSE]]
    /\ UNCHANGED << svcVars, sessVars, parseVars, exchVars >>

\* Signaled::new whose register_wait returns the error without freeing the
\* shared state it took out of its Box
SignaledNew_LeakOnError(i) ==
    /\ futures[i].state = "none"
    /\ \E ok \in BOOLEAN :
          futures' = [futures EXCEPT ![i] =
              IF ok
              THEN [@ EXCEPT !.state = "live", !.wait = "armed",
                             !.setBefore = event.signaled]
              ELSE [@ EXCEPT !.state = "failed"]]
    /\ UNCHANGED << svcVars, sessVars, parseVars, exchVars, event >>

\* Event::signaled, Signaled::new: the shared state is boxed and
\* register_wait hands it to RegisterWaitForSingleObject; when that fails
\* register_wait frees the shared state and returns the error
SignaledNew(i) ==
    /\ futures[i].state = "none"
    /\ \E ok \in BOOLEAN :
          futures' = [futures EXCEPT ![i] =
              IF ok
              THEN [@ EXCEPT !.state = "live", !.wait = "armed",
                             !.setBefore = event.signaled]
              ELSE [@ EXCEPT !.state = "failed", !.frees = @ + 1]]
    /\ UNCHANGED << svcVars, sessVars, parseVars, exchVars, event >>

\* the thread pool finds the event of a registered wait signaled: the wait
\* is satisfied once (WT_EXECUTEONLYONCE) and its callback is queued; an
\* auto-reset event is reset by the satisfied wait
WaitSatisfied(i) ==
    /\ futures[i].wait = "armed"
    /\ event.signaled
    /\ futures' = [j \in 1..MaxFutures |->
                     IF j = i THEN [futures[j] EXCEPT !.wait = "fired"]
                     ELSE IF ~event.manual_reset
                     THEN [futures[j] EXCEPT !.setBefore = FALSE]
                     ELSE futures[j]]
    /\ event' = [event EXCEPT !.signaled = event.manual_reset]
    /\ UNCHANGED << svcVars, sessVars, parseVars, exchVars >>

\* Signaled::wait_callback that sets the flag and leaves the waker alone
wait_callback_NoWake(i) ==
    /\ futures[i].wait = "fired"
    /\ futures' = [futures EXCEPT ![i] =
                     [@ EXCEPT !.wait = "done", !.signaled = TRUE]]
    /\ UNCHANGED << svcVars, sessVars, parseVars, exchVars, event >>

\* Signaled::wait_callback on a thread-pool thread
wait_callback(i) ==
    /\ futures[i].wait = "fired"
    /\ futures' = [futures EXCEPT ![i] =
                     [@ EXCEPT !.wait = "done", !.signaled = TRUE,
                               !.waker = FALSE,
                               !.task = IF futures[i].waker THEN "woken"
                                        ELSE @]]
    /\ UNCHANGED << svcVars, sessVars, parseVars, exchVars, event >>

\* Signaled::poll that returns Pending without storing the waker
poll_NoWaker(i) ==
    /\ futures[i].state = "live"
    /\ futures[i].task \in {"unpolled", "woken"}
    /\ futures' = [futures EXCEPT ![i] =
                     IF futures[i].signaled
                     THEN [@ EXCEPT !.task = "ready"]
                     ELSE [@ EXCEPT !.task = "idle"]]
    /\ UNCHANGED << svcVars, sessVars, parseVars, exchVars, event >>

\* Signaled::poll, called by the task that awaits the future: at its first
\* poll and whenever its waker has been woken
poll(i) ==
    /\ futures[i].state = "live"
    /\ futures[i].task \in {"unpolled", "woken"}
    /\ futures' = [futures EXCEPT ![i] =
                     IF futures[i].signaled
                     THEN [@ EXCEPT !.task = "ready"]
                     ELSE [@ EXCEPT !.task = "idle", !.waker = TRUE]]
    /\ UNCHANGED << svcVars, sessVars, parseVars, exchVars, event >>

\* Drop for Signaled that does not wait for a callback that is due or
\* running (UnregisterWaitEx without INVALID_HANDLE_VALUE) before it frees
\* the shared state
SignaledDrop_NoWait(i) ==
    /\ futures[i].state = "live"
    /\ futures' = [futures EXCEPT ![i] =
                     [@ EXCEPT !.state = "dropped",
                               !.wait = IF @ = "fired" THEN @
                                        ELSE "unregistered",
                               !.signaled = FALSE, !.waker = FALSE,
                               !.setBefore = FALSE, !.unregs = @ + 1,
                               !.frees = @ + 1]]
    /\ UNCHANGED << svcVars, sessVars, parseVars, exchVars, event >>

\* Drop for Signaled that unregisters the wait and leaves the shared state
SignaledDrop_NoFree(i) ==
    /\ futures[i].state = "live"
    /\ futures[i].wait # "fired"
    /\ futures' = [futures EXCEPT ![i] =
                     [@ EXCEPT !.state = "dropped", !.wait = "unregistered",
                               !.signaled = FALSE, !.waker = FALSE,
                               !.setBefore = FALSE, !.unregs = @ + 1]]
    /\ UNCHANGED << svcVars, sessVars, parseVars, exchVars, event >>

\* Drop for Signaled: UnregisterWaitEx with INVALID_HANDLE_VALUE returns
\* when no callback of the wait is running or due any more, then
\* drop_shared_state frees the shared state
SignaledDrop(i) ==
    /\ futures[i].state = "live"
    /\ futures[i].wait # "fired"
    /\ futures' = [futures EXCEPT ![i] =
                     [@ EXCEPT !.state = "dropped", !.wait = "unregistered",
                               !.signaled = FALSE, !.waker = FALSE,
                               !.setBefore = FALSE, !.unregs = @ + 1,
                               !.frees = @ + 1]]
    /\ UNCHANGED << svcVars, sessVars, parseVars, exchVars, event >>

(* --------------------------- status exchange -------------------------- *)

\* One call of VoltronicHidUps::status against a UPS whose behaviour is
\* fixed beforehand: how long the write of each command takes, and the input
\* reports it sends in answer.  Time is counted in milliseconds from the
\* start of the send or of the receive in progress.

SEND_TIMEOUT_MS == 1000
RECEIVE_TIMEOUT_MS == 250
RECEIVE_TOTAL_TIMEOUT_MS == 2400

\* Bytes of an input report are characters as in the status parsing, and
\* these two: the byte 0xFF, which no UTF-8 text contains, and the zero
\* byte that fills a report up to its fixed size.
INVALID == "0xFF"
NUL == "0x00"

\* an input report that arrives delay ms after the one before it (the first
\* one: after the read_response started); fault: the read of it fails
Packet(delay, id, data) ==
    [delay |-> delay, id |-> id, data |-> data, fault |-> FALSE]

\* String::from_utf8(response), line 75, succeeds
from_utf8(bytes) == \A i \in 1..Len(bytes) : bytes[i] # INVALID

\* protocol() that goes by the first letter of the response
protocol_FirstLetter(response) ==
    CASE response # << >> /\ response[1] = "P" -> "P"
      [] response # << >> /\ response[1] = "T" -> "T"
      [] response # << >> /\ response[1] = "V" -> "V"
      [] OTHER -> "Unknown"

\* the match of protocol(), lines 35-40
protocol(response) ==
    CASE response = << "P" >> -> "P"
      [] response = << "T" >> -> "T"
      [] response = << "V" >> -> "V"
      [] OTHER -> "Unknown"

\* count reports without a terminator, every gap ms: the header, then blanks
Burst(count, gap) ==
    [i \in 1..count |->
        Packet(gap, REPORT_ID, IF i = 1 THEN << HEADER >> ELSE << " " >>)]

\* count fields separated by blanks: numbers of one digit, and the flags
\* of the example as the eighth
StatusBody(count) ==
    Join([i \in 1..count |-> IF i = 8 THEN ExampleFields[8] ELSE << "1" >>],
         0, << >>)

\* how an answer to "QS" goes on after its first reports: head is the
\* header if no report carried it yet
Tails(head) ==
    { << Packet(0, REPORT_ID, head \o StatusBody(8) \o << CR >>) >>,
      << Packet(0, REPORT_ID, head \o StatusBody(8) \o << CR, NUL, NUL >>) >>,
      << Packet(0, REPORT_ID, head \o SubSeq(StatusBody(8), 1, 10)),
         Packet(245, REPORT_ID,
                SubSeq(StatusBody(8), 11, Len(StatusBody(8))) \o << CR >>) >>,
      << Packet(0, REPORT_ID, head \o StatusBody(8) \o << CR, "x", CR >>),
         Packet(0, REPORT_ID, << "y", CR >>) >>,
      << >>,
      << Packet(300, REPORT_ID, head \o StatusBody(8) \o << CR >>) >>,
      << Packet(0, REPORT_ID + 1, head \o StatusBody(8) \o << CR >>) >>,
      << [Packet(0, REPORT_ID, << >>) EXCEPT !.fault = TRUE] >>,
      << Packet(0, REPORT_ID,
                head \o << INVALID >> \o StatusBody(8) \o << CR >>) >>,
      << Packet(0, REPORT_ID,
                head \o StatusBody(8) \o << CR, INVALID >>) >>,
      << Packet(0, REPORT_ID,
                head \o StatusBody(7) \o << CR >>) >>,
      << Packet(0, REPORT_ID, << "x" >> \o StatusBody(8) \o << CR >>) >> }

\* answers to "QS"
StatusReplies ==
    { Burst(count, gap) \o tail :
        count \in 0..MaxStream, gap \in {0, 245},
        tail \in Tails(<< HEADER >>) \cup Tails(<< >>) }

\* answers to "M"
ProtocolReplies ==
    { << Packet(0, REPORT_ID, << letter, CR >>) >> :
        letter \in {"V", "P", "T", "X", "v"} }
    \cup
    { << Packet(0, REPORT_ID, << "V", "V", CR >>) >>,
      << Packet(0, REPORT_ID, << " ", "V", CR >>) >>,
      << Packet(0, REPORT_ID, << CR >>) >>,
      << Packet(0, REPORT_ID, << "V", CR, NUL >>) >>,
      << Packet(0, REPORT_ID, << "V" >>), Packet(245, REPORT_ID, << CR >>) >>,
      << Packet(0, REPORT_ID, << "V", CR >>),
         Packet(0, REPORT_ID, << "P", CR >>) >>,
      << Packet(0, REPORT_ID, << "V", CR, "P", CR >>) >>,
      << Packet(0, REPORT_ID, << "P", CR, "V", CR >>) >>,
      << Packet(0, REPORT_ID + 1, << "V", CR >>) >>,
      << Packet(300, REPORT_ID, << "V", CR >>) >>,
      << Packet(0, REPORT_ID, << "V", INVALID, CR >>) >>,
      << Packet(0, REPORT_ID, << "V" >>) >>,
      << >> }

\* a UPS whose write of the command late takes longer than the timeout of
\* the send and whose write of the command faulty fails
Script(late, faulty, answer, snapshot) ==
    [sendDelay |-> [cmd \in StatusCommands |->
                       IF cmd = late THEN 1100 ELSE 0],
     sendFault |-> [cmd \in StatusCommands |-> cmd = faulty],
     reply |-> [cmd \in StatusCommands |->
                   IF cmd = "M" THEN answer ELSE snapshot]]

\* the behaviours of the UPS: every answer to "M" from a UPS that would
\* answer "QS" with a snapshot, and every answer to "QS" from a UPS that
\* answers "M" with V
Scripts ==
    { Script(late, faulty, answer,
             << Packet(0, REPORT_ID,
                       << HEADER >> \o StatusBody(8) \o << CR >>) >>) :
        late \in {"none", "M"}, faulty \in {"none", "M"},
        answer \in ProtocolReplies }
    \cup
    { Script(late, faulty, << Packet(0, REPORT_ID, << "V", CR >>) >>,
             snapshot) :
        late \in {"none", "QS"}, faulty \in {"none", "QS"},
        snapshot \in StatusReplies }

\* a transact_command that returned Ok(text) or Err(message) after elapsed
\* ms of its send or receive, with the reports it left unread
TransactOk(text, unread, elapsed) ==
    [kind |-> "ok", text |-> text, error |-> "", cause |-> "none",
     unread |-> unread, elapsed |-> elapsed]

TransactErr(message, cause, unread, elapsed) ==
    [kind |-> "err", text |-> << >>, error |-> message, cause |-> cause,
     unread |-> unread, elapsed |-> elapsed]

\* the ? of lines 45, 46, 124 and 129: transact_command returns the error
\* and status() returns it to its caller
StatusReturnsErr(message, cause, pending, elapsed) ==
    /\ stLast' = [stLast EXCEPT
                    ![stCmd] = TransactErr(message, cause, Len(pending),
                                           elapsed)]
    /\ stResult' = ParseErr(message)
    /\ stPc' = "done"
    /\ stPending' = pending
    /\ stElapsed' = elapsed
    /\ UNCHANGED << stCmd, stSent, stBuffer >>

\* status(), lines 123-124: protocol() starts the exchange of "M"
StatusCall ==
    /\ stPc = "idle"
    /\ stPc' = "send"
    /\ stCmd' = "M"
    /\ stElapsed' = 0
    /\ UNCHANGED << svcVars, sessVars, parseVars, eventVars, stScript, stSent,
                    stPending, stBuffer, stLast, stResult >>

\* send_command under its timeout: the write ends within SEND_TIMEOUT_MS,
\* and then read_response starts, or the timeout ends it
StatusSend ==
    /\ stPc = "send"
    /\ IF stScript.sendDelay[stCmd] > SEND_TIMEOUT_MS
       THEN StatusReturnsErr("Sending command timed-out", "send", stPending,
                        SEND_TIMEOUT_MS)
       ELSE IF stScript.sendFault[stCmd]
       THEN StatusReturnsErr("Output report write failed", "io", stPending,
                        stScript.sendDelay[stCmd])
       ELSE /\ stSent' = Append(stSent, stCmd)
            /\ stPending' = stPending \o stScript.reply[stCmd]
            /\ stBuffer' = << >>
            /\ stElapsed' = 0
            /\ stPc' = "recv"
            /\ UNCHANGED << stCmd, stLast, stResult >>
    /\ UNCHANGED << svcVars, sessVars, parseVars, eventVars, stScript >>

\* read_input_report that only the timeout of the single read ends
ReadCompletes_NoTotalTimeout ==
    /\ stPending # << >>
    /\ Head(stPending).delay <= RECEIVE_TIMEOUT_MS

\* read_input_report ends before the timeout of read_single_response_packet
\* and before that of read_response: both poll the read before their timer
ReadCompletes ==
    /\ stPending # << >>
    /\ Head(stPending).delay <= RECEIVE_TIMEOUT_MS
    /\ stElapsed + Head(stPending).delay <= RECEIVE_TOTAL_TIMEOUT_MS

\* a read that only the timeout of read_response ends
ReadDeadline_TotalOnly ==
    [cause |-> "total", at |-> RECEIVE_TOTAL_TIMEOUT_MS]

\* the timeout that ends a read which does not complete: the one of
\* read_single_response_packet, started with the read, unless the one of
\* read_response, started with the receive, expires before it
ReadDeadline ==
    IF stElapsed + RECEIVE_TIMEOUT_MS <= RECEIVE_TOTAL_TIMEOUT_MS
    THEN [cause |-> "packet", at |-> stElapsed + RECEIVE_TIMEOUT_MS]
    ELSE [cause |-> "total", at |-> RECEIVE_TOTAL_TIMEOUT_MS]

\* One turn of the loop of read_all_response_packets under the timeout of
\* read_response: read_single_response_packet under its own timeout, and
\* after the report with the terminator the rest of read_response, of
\* protocol() and of status().
StatusRead ==
    /\ stPc = "recv"
    /\ LET arrives == ReadCompletes
       IN  IF ~arrives
           THEN StatusReturnsErr("Receiving response timed-out",
                                 ReadDeadline.cause, stPending,
                                 ReadDeadline.at)
           ELSE LET packet == Head(stPending)
                    rest == Tail(stPending)
                    now == stElapsed + packet.delay
                    buffer == stBuffer \o packet.data
                IN  IF packet.fault
                    THEN StatusReturnsErr("Input report read failed", "io", rest,
                                     now)
                    ELSE IF packet.id # REPORT_ID
                    THEN StatusReturnsErr("Unexpected HID report ID", "id", rest,
                                     now)
                    ELSE IF \A i \in 1..Len(packet.data) :
                                packet.data[i] # CR
                    THEN /\ stBuffer' = buffer
                         /\ stPending' = rest
                         /\ stElapsed' = now
                         /\ UNCHANGED << stPc, stCmd, stSent, stLast,
                                         stResult >>
                    ELSE IF ~from_utf8(buffer)
                    THEN /\ StatusReturnsErr("UPS response is not valid UTF-8",
                                        "utf8", rest, now)
                    ELSE /\ stBuffer' = buffer
                         /\ stPending' = rest
                         /\ stElapsed' = now
                         /\ stLast' =
                               [stLast EXCEPT
                                  ![stCmd] =
                                      TransactOk(read_response(buffer)[1],
                                                 Len(rest), now)]
                         /\ UNCHANGED stSent
                         /\ IF stCmd = "QS"
                            THEN /\ stResult' = status(buffer)
                                 /\ stPc' = "done"
                                 /\ UNCHANGED stCmd
                            ELSE IF protocol(read_response(buffer)[1]) = "V"
                            THEN /\ stPc' = "send"
                                 /\ stCmd' = "QS"
                                 /\ UNCHANGED stResult
                            ELSE /\ stResult' = ParsePanic
                                 /\ stPc' = "done"
                                 /\ UNCHANGED stCmd
    /\ UNCHANGED << svcVars, sessVars, parseVars, eventVars, stScript >>

(* --------------------------- specification ---------------------------- *)

Supervisor ==
    \/ PollPowerLoss
    \/ SendShutdownMessage
    \/ StartGrace
    \/ PollGrace
    \/ ResetWakeup
    \/ InitiateShutdown
    \/ RegisterWait
    \/ PollResume

Next ==
    \/ ReadConfig
    \/ OpenDevice
    \/ PollerPanics
    \/ StatusFails
    \/ Backoff
    \/ \E flags \in FlagBytes : Publish(flags)
    \/ Tick
    \/ WakeupSet
    \/ ControlStop
    \/ ServiceStop
    \/ ServiceFail
    \/ WaitCallback
    \/ Supervisor

Spec == Init /\ [][Next]_vars

\* a session in use, next to a service that has just started
SessionInit ==
    /\ ServiceInit
    /\ ~hibernate
    /\ shutdown_timeout_s = 1
    /\ SessionNew(1..MaxReportSize)
    /\ ParseNew({<< >>})
    /\ EventNew({TRUE}, {FALSE})
    /\ ExchangeNew({NoScript})

\* the steps of the callers of one session
IoStep ==
    \E c \in Callers :
        \/ \E command \in Commands : Acquired(c, command)
        \/ \E outcome \in SendOutcomes : SendDone(c, outcome)
        \/ \E outcome \in ReadOutcomes : ReadDone(c, outcome)

SessionNext ==
    \/ \E c \in Callers : \E command \in Commands : CallTransact(c, command)
    \/ \E c \in Callers : Cancel(c)
    \/ IoStep

SessionSpec == SessionInit /\ [][SessionNext]_vars

\* a status text arrives and is parsed
ParseInit ==
    /\ ServiceInit
    /\ ~hibernate
    /\ shutdown_timeout_s = 1
    /\ SessionNew({1})
    /\ ParseNew(StatusTexts)
    /\ EventNew({TRUE}, {FALSE})
    /\ ExchangeNew({NoScript})

ParseNext ==
    \/ MegatecStatus
    \/ VoltronicStatus
    \/ WorkMode

ParseSpec == ParseInit /\ [][ParseNext]_vars

\* Signaled futures are created on an event, awaited and dropped while the
\* event is set and reset
EventInit ==
    /\ ServiceInit
    /\ ~hibernate
    /\ shutdown_timeout_s = 1
    /\ SessionNew({1})
    /\ ParseNew({<< >>})
    /\ EventNew(BOOLEAN, BOOLEAN)
    /\ ExchangeNew({NoScript})

\* the steps of the thread pool
PoolStep(i) == WaitSatisfied(i) \/ wait_callback(i)

\* the steps that the thread pool and the runtime take of themselves
Progress == \E i \in 1..MaxFutures : PoolStep(i) \/ poll(i)

EventNext ==
    \/ EventSet
    \/ EventReset
    \/ \E i \in 1..MaxFutures : SignaledNew(i)
    \/ Progress
    \/ \E i \in 1..MaxFutures : SignaledDrop(i)

EventSpec == EventInit /\ [][EventNext]_vars

\* One call of VoltronicHidUps::status, against every behaviour of the UPS.
ExchangeInit ==
    /\ ServiceInit
    /\ ~hibernate
    /\ shutdown_timeout_s = 1
    /\ SessionNew({1})
    /\ ParseNew({<< >>})
    /\ EventNew({TRUE}, {FALSE})
    /\ ExchangeNew(Scripts)

ExchangeNext ==
    \/ StatusCall
    \/ StatusSend
    \/ StatusRead

ExchangeSpec == ExchangeInit /\ [][ExchangeNext]_vars

\* The thread pool satisfies a registered wait whose event stays signaled
\* and runs the callback of a satisfied wait, and the runtime polls a task
\* at its start and whenever it has been woken: while one of these steps
\* is due, one of them is taken.
EventLive == EventSpec /\ WF_vars(Progress)

\* A caller holding the Mutex is polled when it is woken, and every write
\* and read ends: each runs under a tokio timeout.
SessionLive == SessionSpec /\ WF_vars(IoStep)

\* The runtime polls the service task whenever it is runnable, the thread
\* pool runs a wait callback once its event is signaled, and a stop
\* notification is taken at the next poll of run_service's select!.
LiveSpec ==
    /\ Spec
    /\ WF_vars(Supervisor)
    /\ WF_vars(WaitCallback)
    /\ WF_vars(ServiceStop)
    /\ WF_vars(ServiceFail)
    /\ WF_vars(ReadConfig)

\* The runtime polls the service task whenever it is runnable, and time
\* passes: a sleep that is pending expires.
GraceLive == Spec /\ WF_vars(Supervisor) /\ WF_vars(Tick)

(* ------------------------------ properties ---------------------------- *)

\* work mode of the value held by the channel, "none" before the first publish
Mode(value) == IF value = None THEN "none" ELSE work_mode(value[1])

\* the value held by the channel has the given flag set
HasFlag(value, bit) == value # None /\ Contains(value[1], bit)

\* this step is a poll of wait_for_power_loss
PolledS0 ==
    /\ pc = "S0"
    /\ sched # "idle"
    /\ pc' = "S1_notify" \/ (pc' = "S0" /\ sched' = "idle")

\* this step is a poll of the grace select!
PolledS1 ==
    /\ pc = "S1"
    /\ sched # "idle"
    /\ pc' \in {"S1_reset", "S0"} \/ (pc' = "S1" /\ sched' = "idle")

\* this step is a poll of the resume select!
PolledS2 ==
    /\ pc = "S2"
    /\ sched # "idle"
    /\ pc' = "S0" \/ (pc' = "S2" /\ sched' = "idle")

\* the supervisor is awaiting resume (S2)
InS2 == pc \in {"S2_register", "S2"}

\* C1: in S0, a poll that observes a published snapshot in Battery,
\* BatteryTest or Fault mode leaves S0 for S1; a poll that observes a Line
\* snapshot, or the initial none, stays in S0; S0 is left for S1 in no other
\* way.
C1_PowerLossEntersGrace ==
    [][ /\ PolledS0 =>
            ( pc' = "S1_notify" <=>
                /\ Changed(lossVer)
                /\ Mode(chanValue) \in {"Battery", "BatteryTest", "Fault"} )
        /\ (pc = "S0" /\ pc' # "S0") =>
              \/ pc' = "stopped"
              \/ pc' = "S1_notify" /\ Mode(chanValue) \notin {"Line", "none"}
     
         ]_vars

\* C1 witness: a Fault snapshot took the supervisor from S0 into S1
C1_Witness ==
    pc = "S1_notify" /\ cycles = 1 /\ Mode(chanValue) = "Fault"

\* C2: as long as every published snapshot is in Line mode, the notifier has
\* not been called, no shutdown or hibernation has been initiated, WAKEUP has
\* not been reset by the supervisor, and the supervisor has not left S0 for
\* S1 or S2 nor failed.
C2_SteadyState ==
    allLine =>
        /\ notifyCount = 0
        /\ cycles = 0
        /\ cycleShutdowns = 0
        /\ cycleRequests = << >>
        /\ cycleResets = 0
        /\ lastSup \in {"none", "wait_for_power_loss"}
        /\ pc \in {"start", "S0", "stopped"}

\* C2 witness: two Line snapshots were published and observed, the
\* supervisor is parked in S0
C2_Witness ==
    /\ allLine
    /\ chanVersion >= 2
    /\ lossVer = chanVersion
    /\ pc = "S0"
    /\ sched = "idle"

\* C3: every entry into S1 makes exactly one notifier broadcast, made before
\* the grace select! (timer, low-battery and recovery waits) is created; the
\* notifier is called nowhere else.
C3_OneBroadcastPerGrace ==
    /\ [](notifyCount = cycles - (IF pc = "S1_notify" THEN 1 ELSE 0))
    /\ [][ /\ notifyCount' # notifyCount =>
                /\ pc = "S1_notify"
                /\ lastSup = "wait_for_power_loss"
                /\ notifyCount' = notifyCount + 1
                /\ pc' = "S1_start"
           /\ (pc' = "S1" /\ pc # "S1") =>
                /\ pc = "S1_start"
                /\ lastSup = "send_shutdown_message"
        
         ]_vars

\* C3 witness: the second grace period of a run has started, after the
\* second broadcast
C3_Witness ==
    pc = "S1" /\ sched = "first" /\ notifyCount = 2 /\ cycles = 2

\* the low-battery wait of the grace select! has an unseen snapshot with
\* BATTERY_LOW set
LowPending == Changed(lowVer) /\ HasFlag(chanValue, BATTERY_LOW)

\* a power-recovery wait has an unseen snapshot in Line mode
LinePending == Changed(recVer) /\ Mode(chanValue) = "Line"

\* the shutdown branch of the current cycle has run to its end
BranchDone == pc \notin {"S1_reset", "S1_shutdown"}

\* what a finished shutdown branch leaves behind: one reset and one
\* initiate_shutdown call with the configured request and S2 when both
\* succeed, the error and no S2 when one of them fails
ShutdownOutcome ==
    IF error \in {"reset", "shutdown"}
    THEN /\ pc = "failed"
         /\ ~enteredS2
         /\ cycleShutdowns = (IF error = "reset" THEN 0 ELSE 1)
         /\ cycleResets = (IF error = "reset" THEN 0 ELSE 1)
         /\ Len(cycleRequests) <= 1
    ELSE /\ cycleResets = 1
         /\ cycleShutdowns = 1
         /\ cycleRequests = << IF hibernate THEN "hibernate" ELSE "shutdown" >>
         /\ enteredS2

\* C4 as stated: once the timer branch of the grace select! has run, a
\* shutdown has been initiated exactly once and the supervisor has moved
\* to S2.
C4_Original ==
    (graceBranch = "timer" /\ BranchDone) =>
        (cycleShutdowns = 1 /\ enteredS2)

\* C4 amended: a poll in S1 that finds the timer expired and neither a
\* BATTERY_LOW nor a Line snapshot pending takes the timer branch; the branch
\* resets WAKEUP and calls initiate_shutdown exactly once (hibernate when
\* hibernate is true) and moves to S2 if both succeed; if either fails,
\* main_loop returns the error and S2 is not entered.
C4_TimerShutdown ==
    /\ [][ (PolledS1 /\ timer = 0 /\ ~LowPending /\ ~LinePending) =>
               (graceBranch' = "timer" /\ pc' = "S1_reset")
         ]_vars
    /\ []((graceBranch = "timer" /\ BranchDone) => ShutdownOutcome)

\* C4 witness: the timer branch hibernated the host and the supervisor
\* awaits resume
C4_Witness ==
    /\ graceBranch = "timer"
    /\ pc = "S2"
    /\ hibernate
    /\ cycleRequests = << "hibernate" >>

\* C5 as stated: a poll in S1 that observes a BATTERY_LOW snapshot before
\* the timer has expired takes the low-battery branch, which initiates
\* shutdown and moves to S2.
C5_Original ==
    /\ [][ (PolledS1 /\ timer > 0 /\ LowPending) =>
               (graceBranch' = "low" /\ pc' = "S1_reset")
         ]_vars
    /\ []((graceBranch = "low" /\ BranchDone) =>
               (cycleShutdowns = 1 /\ enteredS2))

\* C5 amended: a poll in S1 that observes, before the timer has expired, a
\* snapshot with BATTERY_LOW set whose work mode is not Line takes the
\* low-battery branch at that poll; when the work mode is Line either the
\* low-battery or the recovery branch is taken; the low-battery branch resets
\* WAKEUP and calls initiate_shutdown once and moves to S2 if both succeed,
\* and returns the error without entering S2 otherwise.
C5_LowBatteryShortcut ==
    /\ [][ (PolledS1 /\ timer > 0 /\ LowPending) =>
               IF Mode(chanValue) # "Line"
               THEN graceBranch' = "low" /\ pc' = "S1_reset"
               ELSE graceBranch' \in {"low", "recovery"}
         ]_vars
    /\ []((graceBranch = "low" /\ BranchDone) => ShutdownOutcome)

\* C5 witness: the low-battery branch shut the host down with grace time
\* left on the timer
C5_Witness ==
    /\ graceBranch = "low"
    /\ pc = "S2"
    /\ timer > 0
    /\ cycleShutdowns = 1

\* C6 as stated: a poll in S1 that observes a Line snapshot before the timer
\* has expired returns to S0, whatever the other flags, and the cycle
\* initiates no shutdown.
C6_Original ==
    /\ [][ (PolledS1 /\ timer > 0 /\ LinePending) =>
               (graceBranch' = "recovery" /\ pc' = "S0")
         ]_vars
    /\ [](graceBranch = "recovery" =>
               (cycleShutdowns = 0 /\ cycleRequests = << >>))

\* C6 amended: a poll in S1 that observes, before the timer has expired, a
\* Line snapshot with BATTERY_LOW clear returns to S0; a cycle ended by the
\* recovery branch resets nothing and initiates no shutdown or hibernation.
C6_PowerRestored ==
    /\ [][ ( /\ PolledS1
             /\ timer > 0
             /\ LinePending
             /\ ~HasFlag(chanValue, BATTERY_LOW) ) =>
               (graceBranch' = "recovery" /\ pc' = "S0")
         ]_vars
    /\ [](graceBranch = "recovery" =>
               /\ cycleShutdowns = 0
               /\ cycleRequests = << >>
               /\ cycleResets = 0
               /\ ~enteredS2
               /\ pc \in {"S0", "stopped"})

\* C6 witness: a Line snapshot without UPS_LINE_INTERACTIVE ended the grace
\* period with time left and nothing was shut down
C6_Witness ==
    /\ graceBranch = "recovery"
    /\ pc = "S0"
    /\ sched = "first"
    /\ chanValue = Some(0)
    /\ timer > 0
    /\ cycleShutdowns = 0

\* C7: every call of initiate_shutdown is made right after a successful
\* WAKEUP.reset() of the same branch, the supervisor's previous statement;
\* between the two the supervisor reaches no await (no publish, no timer
\* tick, no stop is taken); when the reset fails main_loop returns and
\* initiate_shutdown is not called.
C7_ResetBeforeShutdown ==
    /\ [][ cycleShutdowns' > cycleShutdowns =>
               /\ pc = "S1_shutdown"
               /\ lastSup = "reset"
               /\ error = "none"
               /\ cycleResets = cycleShutdowns + 1
         ]_vars
    /\ [][ (pc \in {"S1_reset", "S1_shutdown"}) =>
               ( /\ pc' \in {"S1_reset", "S1_shutdown", "S2_register",
                              "failed"}
                 /\ chanVersion' = chanVersion
                 /\ timer' = timer )
         ]_vars
    /\ [](error = "reset" => (pc = "failed" /\ cycleShutdowns = 0))

\* C7 witness: the low-battery branch has reset WAKEUP and then called
\* initiate_shutdown
C7_Witness ==
    /\ pc = "S2_register"
    /\ lastSup = "initiate_shutdown"
    /\ graceBranch = "low"
    /\ cycleResets = 1

\* C8: while WAKEUP has not been set since the reset that preceded the
\* shutdown call, the event is not signaled, the resume await is not ready,
\* and the supervisor does not leave S2 through the resume branch.
C8_StaleWakeIgnored ==
    /\ []((InS2 /\ ~setSinceReset) => (~wakeup /\ ~sigFlag))
    /\ [][ (pc = "S2" /\ pc' = "S0" /\ resumeBranch' = "wake") =>
               setSinceReset
         ]_vars

\* C8 witness: a resume event raised before the reset was cleared by it and
\* the supervisor is parked in S2
C8_Witness ==
    /\ pc = "S2"
    /\ sched = "idle"
    /\ staleCleared
    /\ ~setSinceReset
    /\ ~wakeup

\* C10: in S2 a poll that observes a Line snapshot returns to S0, resume
\* event or not; S2 is left only for S0 through the resume branch (after a
\* set of WAKEUP) or the recovery branch (on a Line snapshot), by the error
\* of WAKEUP.signaled(), or by the service stop.
C10_LeavingS2 ==
    /\ [][ (PolledS2 /\ LinePending) => pc' = "S0"
         ]_vars
    /\ [][ (pc = "S2" /\ pc' # "S2") =>
               \/ /\ pc' = "stopped"
                  /\ stopRequested \/ pollerPc' \in {"failed", "panicked"}
               \/ /\ pc' = "S0"
                  /\ \/ resumeBranch' = "wake" /\ sigFlag /\ setSinceReset
                     \/ resumeBranch' = "line" /\ LinePending
         ]_vars
    /\ [][ (pc = "S2_register" /\ pc' # "S2_register") =>
               \/ pc' = "S2"
               \/ pc' = "failed" /\ error' = "register"
         ]_vars

\* C10 witness: a Line snapshot took the supervisor from S2 to S0 in a run
\* where no resume event was ever raised
C10_Witness ==
    /\ pc = "S0"
    /\ resumeBranch = "line"
    /\ wakeSets = 0

\* C9: once the supervisor awaits resume in S2 and WAKEUP has been set
\* after the reset that preceded the shutdown call (before or after the
\* await was created), the supervisor eventually leaves S2 for S0, unless
\* the service is stopped first.
C9_ResumeLeavesS2 ==
    (pc = "S2" /\ setSinceReset) ~> (pc = "S0" \/ pc = "stopped")

\* C9 witness: a resume event raised between the reset and the creation of
\* the await took the supervisor from S2 to S0
C9_Witness ==
    /\ pc = "S0"
    /\ resumeBranch = "wake"
    /\ lastSup = "select_resume"
    /\ Mode(chanValue) = "Battery"

\* C11: once a cycle has gone through S2 and the resume event has returned
\* the supervisor to S0, a poll in S0 that observes a Battery, BatteryTest or
\* Fault snapshot starts a new cycle: the notifier is broadcast once more
\* and a new grace select! is created with a full timer and fresh
\* low-battery and recovery waits.
C11_SecondCycle ==
    /\ [][ ( /\ PolledS0
             /\ enteredS2
             /\ resumeBranch = "wake"
             /\ Changed(lossVer)
             /\ Mode(chanValue) \in {"Battery", "BatteryTest", "Fault"} ) =>
               ( /\ pc' = "S1_notify"
                 /\ cycles' = cycles + 1
                 /\ cycleShutdowns' = 0
                 /\ ~enteredS2' )
         ]_vars
    /\ [][ (cycles >= 2 /\ pc = "S1_notify" /\ pc' # pc) =>
               (pc' = "S1_start" /\ notifyCount' = notifyCount + 1)
         ]_vars
    /\ [][ (cycles >= 2 /\ pc = "S1_start" /\ pc' # pc) =>
               ( /\ pc' = "S1"
                 /\ sched' = "first"
                 /\ timer' = shutdown_timeout_s
                 /\ lowVer' = InitialVersion
                 /\ recVer' = InitialVersion )
         ]_vars
    /\ []((cycles >= 2 /\ pc = "S1") => notifyCount = cycles)

\* C11 witness: the only snapshot of the run reports Battery; the first
\* cycle ended in S2 and was resumed by the event, the second broadcast was
\* made and the second grace period is running on a full timer
C11_Witness ==
    /\ cycles = 2
    /\ pc = "S1"
    /\ sched = "idle"
    /\ notifyCount = 2
    /\ timer = shutdown_timeout_s
    /\ chanVersion = 1
    /\ Mode(chanValue) = "Battery"
    /\ wakeSets = 1

\* one of the calls of the last initiate_shutdown failed
CallFailed(calls) == \E i \in DOMAIN calls : ~calls[i].ok

\* C12 as stated: whether or not acquiring the privilege or the power request
\* fails, the supervisor leaves the shutdown branch as after a successful
\* initiation, for the resume wait of S2.
C12_Original ==
    [][ (pc = "S1_shutdown" /\ pc' # pc) =>
            (pc' = "S2_register" /\ enteredS2')
      ]_vars

\* C12 amended: when impersonation, token opening, privilege enabling or
\* the power request fails, initiate_shutdown returns the error and
\* main_loop returns it in turn: S2 is not entered, the supervisor never
\* re-enters the grace period nor broadcasts again, and run_service reports
\* SERVICE_STOPPED with ERROR_ARENA_TRASHED; only a successful initiation
\* proceeds to S2.
C12_ShutdownFailure ==
    /\ [][ (pc = "S1_shutdown" /\ pc' # pc) =>
               IF CallFailed(apiCalls')
               THEN pc' = "failed" /\ error' = "shutdown" /\ ~enteredS2'
               ELSE pc' = "S2_register" /\ error' = "none" /\ enteredS2'
         ]_vars
    /\ [][ (error = "shutdown") =>
               ( /\ pc' = "failed"
                 /\ cycles' = cycles
                 /\ notifyCount' = notifyCount
                 /\ cycleShutdowns' = cycleShutdowns
                 /\ svcStatus' # svcStatus =>
                       svcStatus' = Status("SERVICE_STOPPED",
                                           "ERROR_ARENA_TRASHED") )
         ]_vars
    /\ [](error = "shutdown" =>
               (CallFailed(apiCalls) /\ cycleShutdowns = 1 /\ ~enteredS2))

\* C12 witness: enabling the privilege failed, main_loop returned the error
\* and the service reported that it stopped with ERROR_ARENA_TRASHED
C12_Witness ==
    /\ pc = "failed"
    /\ error = "shutdown"
    /\ \E i \in DOMAIN apiCalls :
          apiCalls[i].api = "AdjustTokenPrivileges" /\ ~apiCalls[i].ok
    /\ svcStatus = Status("SERVICE_STOPPED", "ERROR_ARENA_TRASHED")
    /\ cycles = 1

\* the power-control requests among the calls of an initiate_shutdown
PowerCalls(calls) ==
    SelectSeq(calls, LAMBDA c :
        c.api \in {"SetSuspendState", "InitiateSystemShutdownExW"})

\* the last initiate_shutdown got as far as holding the enabled privilege
PrivilegeHeld(calls) ==
    \E i \in DOMAIN calls :
        calls[i].api = "AdjustTokenPrivileges" /\ calls[i].ok

\* SetSuspendState(bHibernate, bForce, bWakeupEventsDisabled): a non-forced
\* suspend to hibernate; wakeEvents tells whether wake events stay enabled
IsHibernateRequest(c, wakeEvents) ==
    /\ c.api = "SetSuspendState"
    /\ c.args[1] = TRUE
    /\ c.args[2] = FALSE
    /\ c.args[3] = ~wakeEvents

\* InitiateSystemShutdownExW(lpMachineName, lpMessage, dwTimeout,
\* bForceAppsClosed, bRebootAfterShutdown, dwReason): a shutdown of the
\* local machine, no message, zero timeout, nothing forced, no reboot
IsShutdownRequest(c) ==
    /\ c.api = "InitiateSystemShutdownExW"
    /\ c.args[1] = "None"
    /\ c.args[2] = "None"
    /\ c.args[3] = 0
    /\ c.args[4] = FALSE
    /\ c.args[5] = FALSE
    /\ c.args[6] = << "SHTDN_REASON_MAJOR_POWER",
                      "SHTDN_REASON_MINOR_ENVIRONMENT" >>

Succeeded(calls, api) ==
    { i \in DOMAIN calls : calls[i].api = api /\ calls[i].ok }

\* positions in calls of the attempts to call one Win32 function
Attempted(calls, api) == { i \in DOMAIN calls : calls[i].api = api }

\* the thread still impersonates once the calls have been made
StillImpersonating(calls) ==
    Cardinality(Succeeded(calls, "ImpersonateSelf"))
        > Cardinality(Succeeded(calls, "RevertToSelf"))

\* thread-token handles still open once the calls have been made
OpenTokens(calls) ==
    Cardinality(Succeeded(calls, "OpenThreadToken"))
        - Cardinality(Succeeded(calls, "CloseHandle"))

\* C14: when initiate_shutdown has returned, with success or with the error
\* of token opening, privilege enabling or the power request, the thread no
\* longer impersonates and the token handle is closed. The handle is closed
\* after the last use of the token and before the revert, which is the
\* last call; a failed ImpersonateSelf is followed by no call at all, and a
\* failed OpenThreadToken by no CloseHandle.
C14_ScopeReleased ==
    /\ ~StillImpersonating(apiCalls)
    /\ OpenTokens(apiCalls) = 0
    /\ Attempted(apiCalls, "RevertToSelf") =
          (IF Succeeded(apiCalls, "ImpersonateSelf") # {}
           THEN {Len(apiCalls)} ELSE {})
    /\ Attempted(apiCalls, "CloseHandle") =
          (IF Succeeded(apiCalls, "OpenThreadToken") # {}
           THEN {Len(apiCalls) - 1} ELSE {})
    /\ (apiCalls # << >> /\ ~apiCalls[1].ok) => Len(apiCalls) = 1

\* C14 witness: enabling the privilege failed after impersonation and token
\* opening succeeded; the handle was closed and the impersonation reverted
C14_Witness ==
    /\ error = "shutdown"
    /\ Len(apiCalls) = 5
    /\ apiCalls[2] = Call("OpenThreadToken", << >>, TRUE)
    /\ apiCalls[3] = Call("AdjustTokenPrivileges", << >>, FALSE)
    /\ apiCalls[4].api = "CloseHandle"
    /\ apiCalls[5].api = "RevertToSelf"

\* the run of the service is over: run_service reported SERVICE_STOPPED, or
\* the process aborted
RunEnded ==
    svcStatus.dwCurrentState = "SERVICE_STOPPED" \/ pollerPc = "panicked"

\* C15: a stop control handled at any time while the service runs, also
\* before main_loop and the stop branch were first polled, is eventually
\* followed by the end of the run. The first of poller result, main_loop
\* result and stop notification to complete decides the reported status:
\* ERROR_SUCCESS when the stop branch won, ERROR_ARENA_TRASHED when the
\* poller or main_loop returned an error; the futures of the others are
\* dropped with their awaits, and nothing happens after the report.
C15_Cancellation ==
    /\ (svcStatus.dwCurrentState = "SERVICE_STOP_PENDING") ~> RunEnded
    /\ [][ (stopRequested /\ pc \in WaitStates /\ pc' = "stopped"
              /\ pollerPc' = "dropped") =>
               ( /\ svcStatus' = Status("SERVICE_STOPPED", "ERROR_SUCCESS")
                 /\ ~registered' /\ ~sigFlag' /\ ~waker' )
         ]_vars
    /\ [][ (pc = "failed") =>
               ( /\ pc' = "failed"
                 /\ svcStatus' # svcStatus =>
                       svcStatus' = Status("SERVICE_STOPPED",
                                           "ERROR_ARENA_TRASHED") )
         ]_vars
    /\ [][ (svcStatus.dwCurrentState = "SERVICE_STOPPED") => vars' = vars
         ]_vars
    /\ [](svcStatus.dwCurrentState = "SERVICE_STOPPED" =>
             IF svcStatus.dwWin32ExitCode = "ERROR_SUCCESS"
             THEN /\ stopRequested
                  /\ pc = "stopped"
                  /\ pollerPc = "dropped"
                  /\ ~registered
             ELSE IF svcStatus.dwWin32ExitCode = "ERROR_ARENA_TRASHED"
             THEN \/ pc = "failed" /\ pollerPc = "dropped"
                  \/ pc = "stopped" /\ pollerPc = "failed" /\ ~registered
             ELSE /\ svcStatus.dwWin32ExitCode = "ERROR_BADKEY"
                  /\ pc = "stopped"
                  /\ pollerPc = "unstarted")

\* C15 witness: the stop control arrived before run_service's select! was
\* first polled; the stop branch won and SERVICE_STOPPED was reported with
\* ERROR_SUCCESS
C15_Witness ==
    /\ svcStatus = Status("SERVICE_STOPPED", "ERROR_SUCCESS")
    /\ lastSup = "none"
    /\ pc = "stopped"
    /\ pollerPc = "dropped"

\* C16: the channel holds none exactly until the first publication and
\* never holds none again. Its value and version change only in a step of
\* the poller that follows a successful status exchange on an open session,
\* which stores one whole snapshot; a failed exchange, the backoff, the
\* reopening of the device, the end of the poller and every step of the
\* supervisor and of the control handler leave the channel as it is.
C16_NeverRevertsToNone ==
    /\ [](chanValue = None <=> chanVersion = InitialVersion)
    /\ [][ (chanValue # None) => (chanValue' # None)
         ]_vars
    /\ [][ (chanValue' # chanValue \/ chanVersion' # chanVersion) =>
               ( /\ pollerPc = "status"
                 /\ pollerPc' = "status"
                 /\ chanValue' \in { Some(flags) : flags \in FlagBytes }
                 /\ chanVersion' = chanVersion + 1 )
         ]_vars
    /\ [][ (pollerPc' # pollerPc) =>
               (chanValue' = chanValue /\ chanVersion' = chanVersion)
         ]_vars

\* C16 witness: after a publication the session was lost and the poller
\* backed off and is reopening the device; the channel still holds the
\* snapshot
C16_Witness ==
    /\ pollerPc = "open"
    /\ chanVersion = 1
    /\ chanValue = Some(136)
    /\ pc = "S1"

\* c has a command in flight: it has sent and not yet returned
InFlight(c) == callerPc[c] \in {"sending", "recv"}

\* C17: at most one caller has a command in flight, and it holds the device
\* Mutex from its send to its return; every write and read is issued by the
\* holder of the Mutex, and while a caller has a command in flight no other
\* caller issues a write or a read.
C17_MutualExclusion ==
    /\ [](Cardinality({ c \in Callers : InFlight(c) }) <= 1)
    /\ [](\A c \in Callers : InFlight(c) => lockOwner = c)
    /\ [][ (opTick' # opTick) =>
               ( /\ lastOp'.by \in Callers
                 /\ lastOp'.by = lockOwner'
                 /\ callerPc'[lastOp'.by] \in {"sending", "recv"} )
         ]_vars
    /\ [][ \A c \in Callers :
               (InFlight(c) /\ opTick' # opTick) => lastOp'.by = c
         ]_vars

\* C17 witness: caller 1 holds the Mutex and reads the second packet of its
\* response while caller 2 waits in device.lock()
C17_Witness ==
    /\ callerPc[1] = "recv"
    /\ packets = 1
    /\ lockOwner = 1
    /\ lockQueue = << 2 >>
    /\ lastOp = [kind |-> "read", by |-> 1]

\* this step issues a write of an output report
SendIssued == opTick' # opTick /\ lastOp'.kind = "send"

\* C18 as stated: there are never two sends without a complete receive, one
\* that read a packet with the terminator, between them.
C18_Original == sendsOpen <= 1

\* C18 amended: a send is issued only when no exchange is in progress, so
\* between two sends the transact_command of the first has returned or was
\* cancelled. A complete receive lies between them exactly when the first
\* one returned after reading a packet with the terminator; when it ended
\* with an error, a timeout or a cancellation, the next send follows with
\* no complete receive in between.
C18_Serialized ==
    /\ [][ SendIssued =>
               /\ \A c \in Callers : ~InFlight(c)
               /\ lockOwner \in {0, lastOp'.by}
               /\ lockOwner' = lastOp'.by
         ]_vars
    /\ [][ \A c \in Callers :
               (InFlight(c) /\ callerPc'[c] = "idle") =>
                  IF lastResult' \in {"ok", "not_utf8"}
                  THEN sendsOpen' = 0
                  ELSE sendsOpen' = sendsOpen /\ sendsOpen >= 1
         ]_vars
    /\ [][ (SendIssued /\ sendsOpen = 0) => sendsOpen' = 1
         ]_vars
    /\ [](sendsOpen = 0 => \A c \in Callers : ~InFlight(c))

\* C18 witness: a receive ran into its total timeout, the Mutex went to
\* the waiting caller 2, and caller 2 sent: two sends with no complete
\* receive between them
C18_Witness ==
    /\ sendsOpen = 2
    /\ lastResult = "total_timeout"
    /\ callerPc[2] = "sending"
    /\ lockOwner = 2
    /\ lastOp = [kind |-> "send", by |-> 2]

\* c is inside transact_command: waiting for the Mutex or holding it
InTransact(c) == callerPc[c] \in {"lock", "sending", "recv"}

\* C19: the device lock is bound to the scope of transact_command.  It is
\* held only by a caller that is inside transact_command; whenever a
\* transact ends, by cancellation of its caller, by a send or receive
\* timeout, or by an I/O or protocol error, the caller neither holds the
\* lock nor waits for it afterwards, and the lock is free or with the first
\* waiter; so every caller that waits for the lock gets past device.lock().
C19_ScopeBoundLock ==
    /\ [](lockOwner # 0 => InTransact(lockOwner))
    /\ [](lockOwner = 0 => lockQueue = << >>)
    /\ [][ \A c \in Callers :
               (InTransact(c) /\ callerPc'[c] = "idle") =>
                  /\ lockOwner' # c
                  /\ \A i \in 1..Len(lockQueue') : lockQueue'[i] # c
                  /\ lockOwner = c =>
                        lockOwner' = IF lockQueue = << >> THEN 0
                                     ELSE Head(lockQueue)
         ]_vars
    /\ \A c \in Callers :
          (callerPc[c] = "lock") ~> (callerPc[c] # "lock")

\* C19 witness: a transact was cancelled, an earlier exchange was left
\* without a complete receive, and caller 2 has since acquired the lock,
\* sent its command and is receiving
C19_Witness ==
    /\ lastResult = "cancelled"
    /\ sendsOpen = 2
    /\ callerPc[1] = "idle"
    /\ callerPc[2] = "recv"
    /\ lockOwner = 2

\* this step is a call of send_command by c with command: c took the
\* free Mutex in transact_command, or was handed it as a waiter
SendCommandBy(c, command) ==
    \/ CallTransact(c, command) /\ lockOwner = 0
    \/ Acquired(c, command)

\* the output report that carries command: report ID 0, the command bytes,
\* the terminator 0x0D, zeros up to size bytes
IsReportOf(report, command, size) ==
    /\ Len(report) = size
    /\ report[1] = 0
    /\ \A i \in 1..Len(command) : report[1 + i] = command[i]
    /\ report[Len(command) + 2] = 13
    /\ \A i \in (Len(command) + 3)..size : report[i] = 0

\* C20: a command whose encoded length, its bytes plus the terminator,
\* exceeds output_report_size - 1 is rejected with an error and no write or
\* read is issued for it; a command that fits is handed to the device as
\* one output report of output_report_size bytes: report ID 0, the encoded
\* command, zero padding.
C20_CommandLength ==
    [][ \A c \in Callers : \A command \in Commands :
          SendCommandBy(c, command) =>
             IF Len(command) + 1 > output_report_size - 1
             THEN /\ callerPc'[c] = "idle"
                  /\ lastResult' = "does_not_fit"
                  /\ UNCHANGED << opTick, lastOp, lastWrite, sendsOpen >>
             ELSE /\ callerPc'[c] = "sending"
                  /\ opTick' # opTick
                  /\ lastOp' = [kind |-> "send", by |-> c]
                  /\ IsReportOf(lastWrite', command, output_report_size)
      ]_vars

\* C20 witness: with reports of three bytes "M" went out as 0, 77, 13 and
\* the two-byte command that followed was rejected, the report untouched
C20_Witness ==
    /\ output_report_size = 3
    /\ lastWrite = << 0, 77, 13 >>
    /\ Len(lastCmd) = 2
    /\ lastResult = "does_not_fit"
    /\ lastOp.kind = "read"

\* this step is an attempt of the poller to open the device that failed
OpenFailed == OpenDevice /\ pollerPc' # "status"

C22_SessionLoss ==
    /\ [][ (pollerPc = "status" /\ sessFailed') =>
              /\ pollerPc' = "backoff"
              /\ openHandles' = 0
              /\ UNCHANGED << chanValue, chanVersion >>
         ]_vars
    /\ [](pollerPc = "backoff" => openHandles = 0 /\ sessFailed)
    /\ [][ (pollerPc = "backoff" /\ pollerPc' # "backoff") =>
              pollerPc' \in {"open", "dropped"}
         ]_vars
    /\ [][ (pollerPc = "open" /\ pollerPc' # "open") =>
              \/ OpenDevice
              \/ pollerPc' \in {"panicked", "dropped"}
         ]_vars
    /\ [](pollerPc = "status" => ~sessFailed /\ openHandles = 1)
    /\ [][ (chanVersion' # chanVersion) => pollerPc = "status" ]_vars
    /\ [](openHandles <= 1)

\* C22 witness: during the grace period the session that had published
\* the Battery snapshot failed; it was dropped with its handle, nothing
\* was published, and the poller is backing off
C22_Witness ==
    /\ pollerPc = "backoff"
    /\ sessFailed
    /\ openHandles = 0
    /\ chanValue # None
    /\ pc = "S1"

\* RuntimeConfig::read() failed in this run
ConfigFailed == configRead = "err"

\* C30: when the configuration cannot be read the service reports
\* SERVICE_STOPPED with ERROR_BADKEY, an exit code no other end of the run
\* uses, and nothing else: SERVICE_RUNNING is reported only in the step in
\* which the configuration was read, the poller and the supervisor are never
\* started, no device is opened, nothing is published, the notifier is not
\* called and no shutdown is initiated.
C30_ConfigFailureFatal ==
    /\ [][ (pc = "start" /\ pc' # "start") =>
              IF ConfigFailed'
              THEN svcStatus' = Status("SERVICE_STOPPED", "ERROR_BADKEY")
              ELSE configRead' = "ok" /\ pc' = "S0"
         ]_vars
    /\ [][ (svcStatus'.dwCurrentState = "SERVICE_RUNNING") =>
              \/ svcStatus.dwCurrentState = "SERVICE_RUNNING"
              \/ pc = "start" /\ pc' = "S0" /\ pollerPc' = "open"
         ]_vars
    /\ [](ConfigFailed =>
            /\ svcStatus = Status("SERVICE_STOPPED", "ERROR_BADKEY")
            /\ pc = "stopped"
            /\ pollerPc = "unstarted"
            /\ lastSup = "none"
            /\ openHandles = 0
            /\ chanValue = None
            /\ notifyCount = 0
            /\ cycleShutdowns = 0
            /\ apiCalls = << >>
            /\ ~stopRequested)
    /\ [](pc = "start" =>
            /\ svcStatus = Status("SERVICE_START_PENDING", "ERROR_SUCCESS")
            /\ configRead = "pending")
    /\ []((svcStatus.dwCurrentState = "SERVICE_STOPPED" /\ ~ConfigFailed) =>
            svcStatus.dwWin32ExitCode
                \in {"ERROR_SUCCESS", "ERROR_ARENA_TRASHED"})
    /\ [][ ConfigFailed => vars' = vars ]_vars

\* C30 witness: the configuration could not be read
C30_Witness ==
    /\ ConfigFailed
    /\ svcStatus = Status("SERVICE_STOPPED", "ERROR_BADKEY")
    /\ pc = "stopped"
    /\ pollerPc = "unstarted"

\* number of fields of a text: the places where a run of characters other
\* than whitespace begins
FieldCount(text) ==
    Cardinality({ i \in 1..Len(text) :
                    /\ ~IsWhitespace(text[i])
                    /\ i = 1 \/ IsWhitespace(text[i - 1]) })

HasHeader(text) == Len(text) >= 1 /\ text[1] = "("

HasTerminator(text) == Len(text) >= 1 /\ text[Len(text)] = "\r"

\* the text between the header and the terminator, where they are present
Payload(text) ==
    SubSeq(text, IF HasHeader(text) THEN 2 ELSE 1,
                 IF HasTerminator(text) THEN Len(text) - 1 ELSE Len(text))

\* the text begins with '(', ends with '\r', and its payload has eight fields
WellFormed(text) ==
    /\ Len(text) >= 2
    /\ HasHeader(text)
    /\ HasTerminator(text)
    /\ FieldCount(Payload(text)) = 8

\* the text of a response as the Voltronic session frames it: what precedes
\* the first '\r'
UpToFirstCR(text) ==
    IF \E i \in 1..Len(text) : text[i] = "\r"
    THEN SubSeq(text, 1,
                (CHOOSE i \in 1..Len(text) :
                    /\ text[i] = "\r"
                    /\ \A j \in 1..(i - 1) : text[j] # "\r") - 1)
    ELSE text

\* the example response of the spec
ExampleText == << "(" >> \o Join(ExampleFields, 0, << >>) \o << "\r" >>

\* C23 as stated: parsing succeeds for every text that begins with '(',
\* ends with '\r' and has exactly eight fields between them.
C23_Original ==
    (parser # "none" /\ WellFormed(input)) => parsed.kind = "ok"

\* C23 amended: UpsStatus::from_str succeeds for every text that begins
\* with '(', ends with '\r' and has exactly eight fields between them,
\* whatever the fields contain.  VoltronicHidUps::status succeeds for every
\* such text in which the fields are not separated by a carriage return: its
\* response ends at the first '\r', and it succeeds exactly when the text
\* begins with '(' and has eight fields between the '(' and the first '\r'.
C23_ParseSucceeds ==
    /\ (parser = "from_str" /\ WellFormed(input)) => parsed.kind = "ok"
    /\ (parser = "status" /\ WellFormed(input)
          /\ Len(UpToFirstCR(input)) = Len(input) - 1) => parsed.kind = "ok"
    /\ (parser = "status" /\ HasHeader(input)
          /\ \E i \in 1..Len(input) : input[i] = "\r") =>
            (parsed.kind = "ok" <=>
                FieldCount(Tail(UpToFirstCR(input))) = 8)

\* C23 witness: the Voltronic parser returned a snapshot for a text whose
\* fields are no numbers at all but for the flags
C23_Witness ==
    /\ parser = "status"
    /\ WellFormed(input)
    /\ parsed.kind = "ok"
    /\ Payload(input)[1] = "x"
    /\ parsed.status[1].flags = 0

\* C24: parsing returns an error and no snapshot when the header '(' is
\* missing, when the terminator is missing, or when the number of fields of
\* the response is not eight.  The response UpsStatus::from_str parses is
\* the whole string, which must end with the terminator; the response
\* VoltronicHidUps::status parses ends at the first terminator received, and
\* the terminator is missing when none is received.
C24_ParseFails ==
    /\ (/\ parser = "from_str"
        /\ \/ ~HasHeader(input)
           \/ ~HasTerminator(input)
           \/ FieldCount(Payload(input)) # 8) =>
           parsed.kind = "err" /\ parsed.status = << >>
    /\ (/\ parser = "status"
        /\ \/ ~HasHeader(input)
           \/ \A i \in 1..Len(input) : input[i] # "\r"
           \/ FieldCount(Tail(UpToFirstCR(input))) # 8) =>
           parsed.kind = "err" /\ parsed.status = << >>

\* C24 witness: a well-framed text of nine fields was refused
C24_Witness ==
    /\ parser = "from_str"
    /\ HasHeader(input)
    /\ HasTerminator(input)
    /\ FieldCount(Payload(input)) = 9
    /\ parsed.kind = "err"
    /\ parsed.error = "Unexpected number of status string parts"

\* words that are no float: no digit, a letter, or two points
NotAFloat ==
    { << "x" >>, << "+" >>, << "-" >>, << "." >>,
      << "1", ".", "2", ".", "5" >>, << "1", "x" >> }

\* words that are no u32: the above, a negative number, a fraction, and a
\* number above u32::MAX
NotALoad ==
    NotAFloat \cup { << "-", "5" >>, << ".", "5" >>, << "5", "." >>, HugeLoad }

\* words that are no byte in base 2: the above, a digit above 1, and a
\* number above u8::MAX
NotFlags ==
    NotALoad \cup { << "5" >>, << "2" >>, << "+", "5" >>,
                    << "1", "0", "0", "0", "0", "0", "0", "0", "0" >> }

\* the snapshot of the example response:
\* 220.0 219.5 220.0 035 50.0 27.5 25.0 00001000
ExampleStatus ==
    [input_voltage |-> Decimal(FALSE, 2200, 1),
     input_fault_voltage |-> Decimal(FALSE, 2195, 1),
     output_voltage |-> Decimal(FALSE, 2200, 1),
     output_load_level |-> 35,
     output_frequency |-> Decimal(FALSE, 500, 1),
     battery_voltage |-> Decimal(FALSE, 275, 1),
     internal_temperature |-> Decimal(FALSE, 250, 1),
     flags |-> UPS_LINE_INTERACTIVE]

\* field number k of a snapshot, in the order of the response
FieldOf(snapshot, k) ==
    CASE k = 1 -> snapshot.input_voltage
      [] k = 2 -> snapshot.input_fault_voltage
      [] k = 3 -> snapshot.output_voltage
      [] k = 4 -> snapshot.output_load_level
      [] k = 5 -> snapshot.output_frequency
      [] k = 6 -> snapshot.battery_voltage
      [] k = 7 -> snapshot.internal_temperature
      [] k = 8 -> snapshot.flags

\* a text either parser takes for a response of eight fields
EightFields(text) ==
    WellFormed(text) /\ Len(UpToFirstCR(text)) = Len(text) - 1

\* C25: lossy parsing.  A response of eight fields always yields a
\* snapshot; a float field that is no number is NaN in it, a load level that
\* is no number is 0, a flags field that is no binary byte is 0x00, and every
\* field the failure did not touch, the flags byte in particular, has the
\* value it has in a response without the failure.
C25_LossyParsing ==
    (parser # "none" /\ EightFields(input)) =>
        /\ parsed.kind = "ok"
        /\ LET fields == split_whitespace(Payload(input))
               snapshot == parsed.status[1]
           IN  /\ \A k \in {1, 2, 3, 5, 6, 7} :
                     fields[k] \in NotAFloat => FieldOf(snapshot, k) = NaN
               /\ fields[4] \in NotALoad => snapshot.output_load_level = 0
               /\ fields[8] \in NotFlags => snapshot.flags = 0
               /\ \A k \in 1..8 :
                     fields[k] = ExampleFields[k] =>
                         FieldOf(snapshot, k) = FieldOf(ExampleStatus, k)

\* C25 witness: a response whose load level is no number gave a snapshot
\* with load level 0, the flags byte and the voltage of the example
C25_Witness ==
    /\ parser = "from_str"
    /\ EightFields(input)
    /\ split_whitespace(Payload(input))[4] = << "x" >>
    /\ parsed.kind = "ok"
    /\ parsed.status[1].output_load_level = 0
    /\ parsed.status[1].flags = UPS_LINE_INTERACTIVE
    /\ parsed.status[1].input_voltage = ExampleStatus.input_voltage

\* the flags field of the text, where it has eight fields
FlagsField(text) == split_whitespace(Payload(text))[8]

\* the constants of UpsStatusFlags that a byte has set
FlagSet(bits) == { flag \in AllFlags : (bits \div flag) % 2 = 1 }

\* the sum of a set of flag constants
BitsOf(flagSet) ==
    LET sum[k \in 0..8] ==
            IF k = 0 THEN 0
            ELSE sum[k - 1] + (IF 2 ^ (k - 1) \in flagSet THEN 2 ^ (k - 1)
                               ELSE 0)
    IN  sum[8]

\* the byte that eight binary digits render, most significant digit first;
\* -1 for any other word
ByteOf(word) ==
    IF Len(word) = 8 /\ \A i \in 1..8 : word[i] \in {"0", "1"}
    THEN LET sum[i \in 0..8] ==
                 IF i = 0 THEN 0
                 ELSE 2 * sum[i - 1] + (IF word[i] = "1" THEN 1 ELSE 0)
         IN  sum[8]
    ELSE -1

\* C26: flags round trip.  For every byte b, a response whose flags field
\* is the eight binary digits of b yields a snapshot whose flag set has the
\* bits of b, and no response makes the construction of the flag set fail.
C26_FlagsRoundTrip ==
    /\ parsed.kind # "panic"
    /\ (parser # "none" /\ EightFields(input)) =>
          \A b \in {ByteOf(FlagsField(input))} \cap 0..255 :
              FlagsField(input) = FormatBinary(b) =>
                  /\ parsed.kind = "ok"
                  /\ parsed.status[1].flags = b
                  /\ BitsOf(FlagSet(parsed.status[1].flags)) = b

\* C26 witness: the byte with every bit set came back from a response whose
\* voltage is no number
C26_Witness ==
    /\ parser = "status"
    /\ EightFields(input)
    /\ FlagsField(input) = FormatBinary(255)
    /\ parsed.kind = "ok"
    /\ parsed.status[1].flags = 255
    /\ parsed.status[1].input_voltage = NaN

\* the priority rule of the work mode, over the set of flags
PriorityRule(flagSet) ==
    CASE UPS_FAULT \in flagSet -> "Fault"
      [] UPS_FAULT \notin flagSet /\ UTILITY_FAIL \in flagSet -> "Battery"
      [] /\ {UPS_FAULT, UTILITY_FAIL} \cap flagSet = {}
         /\ SELF_TEST_IN_PROGRESS \in flagSet -> "BatteryTest"
      [] {UPS_FAULT, UTILITY_FAIL, SELF_TEST_IN_PROGRESS} \cap flagSet = {}
            -> "Line"

\* C27: the work mode of a snapshot is the output of the priority rule over
\* its flags, for every flags byte and whatever the other fields hold.
C27_WorkModeRule ==
    mode # "none" =>
        /\ parsed.kind = "ok"
        /\ mode = PriorityRule(FlagSet(parsed.status[1].flags))

\* C27 witness: a snapshot with UPS_FAULT, UTILITY_FAIL and
\* SELF_TEST_IN_PROGRESS set is in work mode Fault
C27_Witness ==
    /\ mode = "Fault"
    /\ {UPS_FAULT, UTILITY_FAIL, SELF_TEST_IN_PROGRESS}
          \subseteq FlagSet(parsed.status[1].flags)

\* the event was set when future i was created on it and has not been reset
\* since, and the future is still there
SetBeforeAwait(i) ==
    /\ futures[i].state = "live"
    /\ futures[i].setBefore

\* C28: on a manual-reset event, an await created while the event is set
\* resolves, unless the event is reset or the await is dropped first; this
\* holds for each of several awaits created on the same event.
C28_AwaitResolves ==
    \A i \in 1..MaxFutures :
        (event.manual_reset /\ SetBeforeAwait(i)) ~>
            \/ futures[i].task = "ready"
            \/ futures[i].state = "dropped"
            \/ ~futures[i].setBefore

\* C28 witness: the awaits created on a manual-reset event that was set
\* before each of them and never reset since are all resolved, and the
\* callback of one of them found no waker to wake
C28_Witness ==
    /\ event.manual_reset
    /\ \A i \in 1..MaxFutures :
          SetBeforeAwait(i) /\ futures[i].task = "ready"
    /\ \E i \in 1..MaxFutures : futures[i].wait = "done" /\ ~futures[i].waker

\* C29: a dropped await has unregistered its wait once and freed its shared
\* state once, whether it was dropped pending, never polled or resolved; a
\* failed registration has freed the shared state once; and the shared
\* state of an await that still exists has not been freed.
C29_FreedExactlyOnce ==
    \A i \in 1..MaxFutures :
        /\ futures[i].state = "dropped" =>
              /\ futures[i].frees = 1
              /\ futures[i].unregs = 1
              /\ futures[i].wait = "unregistered"
        /\ futures[i].state = "failed" =>
              futures[i].frees = 1 /\ futures[i].unregs = 0
        /\ futures[i].state \in {"none", "live"} =>
              futures[i].frees = 0 /\ futures[i].unregs = 0

\* C29 witness: one await was dropped while pending,
\* and the registration of another failed
C29_Witness ==
    \E i, j \in 1..MaxFutures :
        /\ futures[i].state = "dropped"
        /\ futures[i].task = "idle"
        /\ futures[i].frees = 1
        /\ futures[j].state = "failed"
        /\ futures[j].frees = 1

\* two results of parsing agree: both are errors, or both are the same
\* snapshot, with the same work mode
SameOutcome(a, b) ==
    \/ a.kind = "err" /\ b.kind = "err"
    \/ /\ a.kind = "ok"
       /\ b.kind = "ok"
       /\ a.status = b.status
       /\ work_mode(a.status[1].flags) = work_mode(b.status[1].flags)

\* C40: the two frontends parse the same grammar.  What
\* VoltronicHidUps::status makes of a response p, the text its session
\* received up to the terminator, is what UpsStatus::from_str makes of p
\* followed by '\r': both fail, or both yield the same snapshot and the same
\* work mode.
C40_SameGrammar ==
    /\ (parser = "status" /\ \E i \in 1..Len(input) : input[i] = "\r") =>
          SameOutcome(parsed, from_str(UpToFirstCR(input) \o << "\r" >>))
    /\ (/\ parser = "status"
        /\ mode # "none"
        /\ \E i \in 1..Len(input) : input[i] = "\r") =>
          mode = work_mode(
                   from_str(UpToFirstCR(input) \o << "\r" >>).status[1].flags)

\* C40 witness: both frontends give the snapshot with load level 0 and work
\* mode Line for a response whose load level is above u32::MAX
C40_Witness ==
    /\ parser = "status"
    /\ EightFields(input)
    /\ split_whitespace(Payload(input))[4] = HugeLoad
    /\ parsed.kind = "ok"
    /\ parsed.status[1].output_load_level = 0
    /\ from_str(input) = parsed
    /\ mode = "Line"

\* the callback of await i has run and the await is still there
CallbackRan(i) == futures[i].state = "live" /\ futures[i].wait = "done"

\* C38: no lost wakeup.  Once the callback of an await has run, the await
\* completes unless it is dropped first, whether its poll came before or
\* after the callback; the callback of an await runs once only; and once it
\* has run, the flag it set stays set and a ready await stays ready while
\* the await exists, whatever is done to the event.
C38_NoLostWakeup ==
    /\ \A i \in 1..MaxFutures :
          CallbackRan(i) ~>
              (futures[i].task = "ready" \/ futures[i].state = "dropped")
    /\ [][ \A i \in 1..MaxFutures :
              /\ futures[i].wait \in {"done", "unregistered"} =>
                    futures'[i].wait \in {"done", "unregistered"}
              /\ (CallbackRan(i) /\ futures'[i].state = "live") =>
                    /\ futures[i].signaled
                    /\ futures'[i].signaled
                    /\ futures[i].task = "ready" =>
                          futures'[i].task = "ready"
              /\ (CallbackRan(i) /\ ~CallbackRan(i)') =>
                    futures'[i].state = "dropped" ]_vars

\* C38 witness: the callback of an await whose poll had stored a waker has
\* woken it, and the event has been reset since
C38_Witness ==
    \E i \in 1..MaxFutures :
        /\ CallbackRan(i)
        /\ futures[i].task = "woken"
        /\ futures[i].signaled
        /\ ~event.signaled
        /\ event.manual_reset

\* C39: the wait callback never touches a freed shared state.  A callback
\* that is due or running belongs to an await whose shared state has not
\* been freed, the callback runs on such an await only, and a dropped await
\* has no wait registered, so that no callback comes after the free.
C39_NoUseAfterFree ==
    /\ [](\A i \in 1..MaxFutures :
            /\ futures[i].wait = "fired" =>
                  futures[i].state = "live" /\ futures[i].frees = 0
            /\ futures[i].frees > 0 =>
                  futures[i].wait \in {"none", "unregistered"})
    /\ [][ \A i \in 1..MaxFutures :
              wait_callback(i) =>
                  /\ futures[i].frees = 0
                  /\ futures'[i].frees = 0
                  /\ futures'[i].state = "live" ]_vars

\* C39 witness: one await was dropped after its callback had woken it,
\* while the callback of another await is due and the event is set
C39_Witness ==
    \E i, j \in 1..MaxFutures :
        /\ futures[i].state = "dropped"
        /\ futures[i].task = "woken"
        /\ futures[i].frees = 1
        /\ futures[j].wait = "fired"
        /\ event.signaled

\* the first poll of a wait that was just started, with a snapshot in the
\* channel
FirstPoll == sched = "first" /\ chanValue # None

\* C35: the first poll of every wait the supervisor starts evaluates the
\* snapshot that is in the channel, without a new publication: the power
\* loss wait leaves S0 exactly when that snapshot is a power loss, the grace
\* select! leaves S1 when it has BATTERY_LOW or is a Line snapshot, and by
\* the branch that snapshot makes ready, and the resume select! leaves S2
\* when it is a Line snapshot.  A wait that is not satisfied has then seen
\* the snapshot, and a later poll acts only on a newer one.
C35_CurrentSnapshotFirst ==
    /\ [][ (PollPowerLoss /\ FirstPoll) =>
              /\ chanVersion' = chanVersion
              /\ IF IsPowerLoss(chanValue[1])
                 THEN pc' = "S1_notify"
                 ELSE pc' = "S0" /\ lossVer' = chanVersion ]_vars
    /\ [][ (PollGrace /\ FirstPoll) =>
              /\ chanVersion' = chanVersion
              /\ IsLowBattery(chanValue[1]) \/ IsPowerRecovery(chanValue[1])
                    => pc' # "S1"
              /\ graceBranch' = "low" => IsLowBattery(chanValue[1])
              /\ graceBranch' = "recovery" => IsPowerRecovery(chanValue[1])
              /\ pc' = "S1" =>
                    lowVer' = chanVersion /\ recVer' = chanVersion ]_vars
    /\ [][ (PollResume /\ FirstPoll) =>
              /\ chanVersion' = chanVersion
              /\ IsPowerRecovery(chanValue[1]) => pc' = "S0"
              /\ pc' = "S2" => recVer' = chanVersion ]_vars
    /\ [][ (PollPowerLoss /\ lossVer = chanVersion) => pc' = "S0" ]_vars
    /\ [][ (PollGrace /\ lowVer = chanVersion /\ recVer = chanVersion
              /\ timer > 0) => pc' = "S1" ]_vars
    /\ [][ (PollResume /\ recVer = chanVersion /\ ~sigFlag) =>
              pc' = "S2" ]_vars

\* C35 witness: the one snapshot ever published reported a power loss with
\* BATTERY_LOW set; the grace select! took its low-battery branch with time
\* left on the timer
C35_Witness ==
    /\ pc = "S1_reset"
    /\ graceBranch = "low"
    /\ chanVersion = 1
    /\ timer > 0
    /\ IsLowBattery(chanValue[1])
    /\ cycles = 1

\* a step in which initiate_shutdown is called
ShutdownInitiated ==
    \/ cycleShutdowns' > cycleShutdowns
    \/ apiCalls' # apiCalls /\ apiCalls' # << >>

\* C36: initiate_shutdown is called only at the end of a grace period S1
\* that its timer or its low-battery wait has ended, after the broadcast of
\* that cycle, and once in a cycle: never from S0 or S2, and not again
\* before a new power loss has been detected in S0.
C36_ShutdownOnlyFromGrace ==
    /\ [][ ShutdownInitiated =>
              /\ pc = "S1_shutdown"
              /\ lastSup = "reset"
              /\ graceBranch \in {"timer", "low"}
              /\ cycles >= 1
              /\ notifyCount = cycles
              /\ cycleShutdowns = 0
              /\ cycleShutdowns' = 1
              /\ ~enteredS2
              /\ pc' \in {"S2_register", "failed"} ]_vars
    /\ [](cycleShutdowns <= 1)
    /\ [](pc \in {"S2_register", "S2"} =>
             cycleShutdowns = 1 /\ notifyCount = cycles)
    /\ [][ (cycleShutdowns = 1 /\ cycleShutdowns' = 0) =>
              /\ pc = "S0"
              /\ pc' = "S1_notify"
              /\ IsPowerLoss(chanValue[1])
              /\ cycles' = cycles + 1 ]_vars

\* C36 witness: the second cycle of a run has initiated its one hibernation
\* after its own broadcast, the first cycle having initiated one too
C36_Witness ==
    /\ pc = "S2"
    /\ hibernate
    /\ cycles = 2
    /\ notifyCount = 2
    /\ cycleShutdowns = 1
    /\ Len(apiCalls) = 6

\* C37: the grace period always ends.  From S1 the supervisor reaches S0, S2
\* or the end of main_loop, whether or not the poller publishes anything
\* more; an expired timer has woken the supervisor, and the poll of the
\* grace select! that finds the timer expired leaves S1.
C37_GraceEnds ==
    /\ (pc = "S1") ~> (pc \in {"S0", "S2"} \cup Ended)
    /\ [](pc = "S1" /\ timer = 0 => sched # "idle")
    /\ [][ (PollGrace /\ timer = 0) => pc' \in {"S0", "S1_reset"} ]_vars
    /\ [][ (pc = "S1" /\ timer' # timer) =>
              timer' = timer - 1 /\ pc' = "S1" ]_vars

\* C37 witness: the session was lost during the grace period and the poller
\* is backing off; the one snapshot of the run is still in the channel, and
\* the supervisor has left S1 by the timer
C37_Witness ==
    /\ pc = "S1_reset"
    /\ graceBranch = "timer"
    /\ timer = 0
    /\ pollerPc = "backoff"
    /\ sessFailed
    /\ chanVersion = 1
    /\ shutdown_timeout_s > 0

\* the bytes hold a terminator
Terminated(bytes) == \E i \in 1..Len(bytes) : bytes[i] = CR

\* the next input report arrives within the timeout of its read and before
\* the timeout of the receive
PacketArrives ==
    /\ stPc = "recv"
    /\ stPending # << >>
    /\ Head(stPending).delay <= RECEIVE_TIMEOUT_MS
    /\ stElapsed + Head(stPending).delay <= RECEIVE_TOTAL_TIMEOUT_MS

\* this step reads an input report with report ID 0
ReadsPacket ==
    /\ PacketArrives
    /\ StatusRead
    /\ ~Head(stPending).fault
    /\ Head(stPending).id = REPORT_ID

\* C31: receive reassembly.  While a receive goes on its buffer holds no
\* terminator; every report read is the oldest one not read yet, and its
\* payload is appended to the buffer, unless invalid UTF-8 fails the call;
\* the report that holds a terminator ends the receive; outside a receive no
\* report is read; a transact_command that returns Ok returns the bytes of
\* the buffer before its first terminator; a report with another ID than 0
\* fails the call.
C31_Reassembly ==
    /\ [](stPc = "recv" => ~Terminated(stBuffer))
    /\ [][ ReadsPacket =>
              /\ stPending' = Tail(stPending)
              /\ \/ stBuffer' = stBuffer \o Head(stPending).data
                 \/ /\ ~from_utf8(stBuffer \o Head(stPending).data)
                    /\ stResult' = ParseErr("UPS response is not valid UTF-8")
              /\ Terminated(Head(stPending).data) => stPc' # "recv" ]_vars
    /\ [][ (stPc # "recv" /\ stPending' # stPending) =>
              /\ stPc = "send"
              /\ stPending' = stPending \o stScript.reply[stCmd] ]_vars
    /\ [][ (\A cmd \in StatusCommands :
               (stLast'[cmd] # stLast[cmd] /\ stLast'[cmd].kind = "ok") =>
                  /\ ReadsPacket
                  /\ cmd = stCmd
                  /\ Terminated(Head(stPending).data)
                  /\ stBuffer' = stBuffer \o Head(stPending).data
                  /\ stLast'[cmd].text = UpToFirstCR(stBuffer')
                  /\ stLast'[cmd].unread = Len(stPending) - 1) ]_vars
    /\ [][ (PacketArrives /\ ~Head(stPending).fault
               /\ Head(stPending).id # REPORT_ID) =>
              /\ stLast'[stCmd].kind = "err"
              /\ stLast'[stCmd].error = "Unexpected HID report ID"
              /\ stResult' = ParseErr("Unexpected HID report ID")
              /\ stPc' = "done" ]_vars

\* C31 witness: the answer to "QS" came in three reports 245 ms apart, the
\* third holding two terminators with a byte between them; the text
\* returned ends before the first of them, and the report that followed is
\* unread
C31_Witness ==
    /\ stPc = "done"
    /\ stSent = << "M", "QS" >>
    /\ stBuffer = << HEADER, " " >> \o StatusBody(8) \o << CR, "x", CR >>
    /\ stLast["QS"] = TransactOk(<< HEADER, " " >> \o StatusBody(8), 1, 490)
    /\ stPending = << Packet(0, REPORT_ID, << "y", CR >>) >>
    /\ stResult.kind = "ok"

\* this step ends the transact_command in progress with a timeout error
\* after elapsed ms
TimesOut(message, elapsed) ==
    /\ stLast'[stCmd].kind = "err"
    /\ stLast'[stCmd].error = message
    /\ stLast'[stCmd].elapsed = elapsed
    /\ stResult' = ParseErr(message)
    /\ stPc' = "done"
    /\ UNCHANGED << stSent, stBuffer, stPending >>

\* C32: nested receive timeouts.  A receive whose next report does not come
\* within 250 ms fails with a timeout error; so does one whose reports come
\* within 250 ms of each other when the next one would come later than
\* 2400 ms after the receive started, and it fails 2400 ms after that start;
\* a send whose write takes longer than 1000 ms fails with a timeout error
\* after 1000 ms, and no receive follows it.  A receive that is pending has
\* not lasted 2400 ms, and each of its steps comes no later than 250 ms
\* after the last one and 2400 ms after the start.
C32_NestedTimeouts ==
    /\ [][ (stPc = "recv"
               /\ (stPending = << >>
                      \/ Head(stPending).delay > RECEIVE_TIMEOUT_MS)) =>
              \/ TimesOut("Receiving response timed-out",
                          stElapsed + RECEIVE_TIMEOUT_MS)
              \/ TimesOut("Receiving response timed-out",
                          RECEIVE_TOTAL_TIMEOUT_MS) ]_vars
    /\ [][ (stPc = "recv" /\ stPending # << >>
               /\ Head(stPending).delay <= RECEIVE_TIMEOUT_MS
               /\ stElapsed + Head(stPending).delay
                      > RECEIVE_TOTAL_TIMEOUT_MS) =>
              TimesOut("Receiving response timed-out",
                       RECEIVE_TOTAL_TIMEOUT_MS) ]_vars
    /\ [][ (stPc = "send"
               /\ stScript.sendDelay[stCmd] > SEND_TIMEOUT_MS) =>
              TimesOut("Sending command timed-out", SEND_TIMEOUT_MS) ]_vars
    /\ [](stPc = "recv" => stElapsed < RECEIVE_TOTAL_TIMEOUT_MS)
    /\ [][ stPc = "recv" =>
              /\ stElapsed' <= stElapsed + RECEIVE_TIMEOUT_MS
              /\ stElapsed' <= RECEIVE_TOTAL_TIMEOUT_MS ]_vars

\* C32 witness: nine reports without a terminator came 245 ms apart, the
\* tenth was due 2450 ms after the receive started, and the receive failed
\* after 2400 ms
C32_Witness ==
    /\ stPc = "done"
    /\ stSent = << "M", "QS" >>
    /\ Len(stBuffer) = 9
    /\ ~Terminated(stBuffer)
    /\ stPending # << >>
    /\ Head(stPending).delay = 245
    /\ stLast["QS"].elapsed = RECEIVE_TOTAL_TIMEOUT_MS
    /\ stResult = ParseErr("Receiving response timed-out")

\* the receive in progress has read every report the UPS sent, and none of
\* them held a terminator
NoFurtherPackets == stPc = "recv" /\ stPending = << >>

\* C33 as stated: a response without terminator that no report follows
\* fails the receive 2400 ms after its start.
C33_Original ==
    [][ NoFurtherPackets =>
           TimesOut("Receiving response timed-out",
                    RECEIVE_TOTAL_TIMEOUT_MS) ]_vars

\* C33 amended: a response without terminator that no report follows fails
\* the receive with the timeout error 250 ms after the last report was read
\* (after the start of the receive, if there was none), or 2400 ms after the
\* start of the receive if that is earlier.
C33_MissingTerminator ==
    [][ NoFurtherPackets =>
           /\ (stElapsed + RECEIVE_TIMEOUT_MS <= RECEIVE_TOTAL_TIMEOUT_MS) =>
                 TimesOut("Receiving response timed-out",
                          stElapsed + RECEIVE_TIMEOUT_MS)
           /\ (stElapsed + RECEIVE_TIMEOUT_MS > RECEIVE_TOTAL_TIMEOUT_MS) =>
                 TimesOut("Receiving response timed-out",
                          RECEIVE_TOTAL_TIMEOUT_MS) ]_vars

\* C33 witness: two reports of the answer to "QS" came, the second 490 ms
\* after the receive started, neither with a terminator, and no other; the
\* receive failed 740 ms after its start
C33_Witness ==
    /\ stPc = "done"
    /\ stSent = << "M", "QS" >>
    /\ stBuffer = << HEADER, " " >>
    /\ stPending = << >>
    /\ stLast["QS"].kind = "err"
    /\ stLast["QS"].elapsed = 490 + RECEIVE_TIMEOUT_MS
    /\ stResult = ParseErr("Receiving response timed-out")

\* the payloads of the reports up to the first one that holds a terminator
ResponseBuffer(reports) ==
    LET buffer[i \in 0..Len(reports)] ==
            IF i = 0 THEN << >>
            ELSE IF Terminated(buffer[i - 1]) THEN buffer[i - 1]
            ELSE buffer[i - 1] \o reports[i].data
    IN  buffer[Len(reports)]

\* the UPS answers the probe "M" with exactly V
AnswersV == UpToFirstCR(ResponseBuffer(stScript.reply["M"])) = << "V" >>

\* C34: status() sends "M" first and "QS" after it, and nothing else; "QS"
\* is being sent or has been sent only when the exchange of "M" returned
\* exactly V, which is what the UPS answered; status() returns a snapshot
\* only after both exchanges returned, that of "M" with exactly V; and once
\* the exchange of "M" has returned anything else, or has failed, status()
\* has ended without a snapshot and "QS" is never sent.
C34_ProbeBeforeStatus ==
    /\ [](stSent \in {<< >>, << "M" >>, << "M", "QS" >>})
    /\ []((stCmd = "QS" \/ stSent = << "M", "QS" >>) =>
              /\ stLast["M"].kind = "ok"
              /\ stLast["M"].text = << "V" >>
              /\ AnswersV)
    /\ [](stResult.kind = "ok" =>
              /\ stSent = << "M", "QS" >>
              /\ stLast["M"].kind = "ok"
              /\ stLast["M"].text = << "V" >>
              /\ stLast["QS"].kind = "ok"
              /\ AnswersV)
    /\ []((stLast["M"].kind # "none" /\ stLast["M"].text # << "V" >>) =>
              /\ stPc = "done"
              /\ stCmd = "M"
              /\ stSent \in {<< >>, << "M" >>}
              /\ stResult.kind \in {"err", "panic"}
              /\ stLast["QS"] = NoTransact)

\* C34 witness: the UPS answered the probe with P; "M" is the only command
\* sent, the report with the snapshot that the UPS would send in answer to
\* "QS" was never asked for, and status() has ended without a snapshot
C34_Witness ==
    /\ stPc = "done"
    /\ stSent = << "M" >>
    /\ stLast["M"] = TransactOk(<< "P" >>, 0, 0)
    /\ stLast["QS"] = NoTransact
    /\ stScript.reply["QS"] # << >>
    /\ stResult.kind # "ok"

====
